---- MODULE Spec2Model ----
(***************************************************************************)
(* gogame-term: a terminal Go board driving a GTP engine subprocess.       *)
(*                                                                         *)
(* Two coordinators of the repository are modelled.                        *)
(*   Spec       the actor coordinator: main, EngineActor,                  *)
(*              BoardControllerActor, BoardTableActor and the render loop, *)
(*              each on its own thread, talking through FIFO mailboxes.    *)
(*   SpecGoGame the iced application GoGame: update() on the UI thread and *)
(*              the async tasks load_board / play_move / gen_next_move.    *)
(* Both talk to the same model of the engine subprocess.                   *)
(*   SpecStore  BoardTableActor on its own, with the writes of the         *)
(*              coordinator and the reads of the render loop interleaved.  *)
(*   SpecFn     the pure functions on their own: the column helpers, the   *)
(*              star points, the layout, the input handling and the        *)
(*              decoding of a reply, one call each.                        *)
(*   SpecTyped  the actor coordinator from the state after the keys A, 1   *)
(*              and Backspace, with one more key.                          *)
(*   SpecGoGameFair  SpecGoGame under a runtime that runs every command    *)
(*              and delivers every message.                                *)
(***************************************************************************)
EXTENDS Integers, Sequences, FiniteSets, TLC

(***************************************************************************)
(* Bounds of the model.                                                    *)
(***************************************************************************)
\* key events the terminal delivers in one run
MaxKeys == 3
\* keyboard events iced delivers to GoGame in one run
MaxEvents == 6
\* things that go wrong with the engine in one run: a wait that ends by
\* timeout, a reply the engine marks as failure without the protocol
\* requiring it, a reply whose text is no vertex list
MaxFaults == 1

(***************************************************************************)
(* Entities (src/core/entities.rs).                                        *)
(***************************************************************************)
\* Option::None of an Option<u8>
None == -1

\* u8 arithmetic as the release build computes it (the debug build panics
\* where this wraps), and `as u8`
U8(n) == n % 256

Black == "Black"
White == "White"
StoneColor == {Black, White}

inverse(color) == IF color = White THEN Black ELSE White

\* OptCoords { row: Option<u8>, col: Option<u8> }
OptCoords(row, col) == [row |-> row, col |-> col]
OptCoordsDefault == OptCoords(None, None)

\* Coords { row, col }
Coords(row, col) == [row |-> row, col |-> col]

\* Coords::vertex: (col, row), the order the gtp crate's Entity::Vertex uses
vertex(coords) == <<coords.col, coords.row>>

\* TryFrom<&OptCoords> for Coords: Ok only when both are Some
TryIntoCoordsOk(opt) == opt.col # None /\ opt.row # None

Stone(color, row, col) == [color |-> color, row |-> row, col |-> col]

(***************************************************************************)
(* Helpers (src/core/helpers.rs, src/view/board/board_controller.rs).      *)
(***************************************************************************)
Alphabet ==
    <<"A", "B", "C", "D", "E", "F", "G", "H", "I", "J",
      "K", "L", "M", "N", "O", "P", "Q", "R", "S", "T">>

\* `col as u8` for an upper-case letter: 'A' is 65
CharCode(c) == 64 + (CHOOSE i \in 1..Len(Alphabet) : Alphabet[i] = c)

\* a get_column_number that does not skip the letter I
get_column_number_NoSkip(c) == CharCode(c) - 64

\* get_column_number: the letter I is skipped
get_column_number(c) ==
    LET col_nr == CharCode(c) - 64
        remove == IF col_nr >= 9 THEN 1 ELSE 0
    IN  col_nr - remove

\* BoardControllerActor::char_range / INPUT_CHAR_RANGE
char_range ==
    {"A", "B", "C", "D", "E", "F", "G", "H", "J", "K",
     "L", "M", "N", "O", "P", "Q", "R", "S", "T"}

\* BoardControllerActor::number_range / INPUT_NUMBER_RANGE
number_range == {"0", "1", "2", "3", "4", "5", "6", "7", "8", "9"}

DigitValue(d) ==
    CASE d = "0" -> 0 [] d = "1" -> 1 [] d = "2" -> 2 [] d = "3" -> 3
      [] d = "4" -> 4 [] d = "5" -> 5 [] d = "6" -> 6 [] d = "7" -> 7
      [] d = "8" -> 8 [] d = "9" -> 9

RECURSIVE DecimalValue(_)
DecimalValue(s) ==
    IF s = <<>> THEN 0
    ELSE 10 * DecimalValue(SubSeq(s, 1, Len(s) - 1)) + DigitValue(s[Len(s)])

\* str::parse::<u8>().ok(): None unless every char is a digit and the value
\* fits a u8
ParseU8(s) ==
    IF s # <<>> /\ (\A i \in 1..Len(s) : s[i] \in number_range)
       /\ DecimalValue(s) <= 255
    THEN DecimalValue(s)
    ELSE None

\* parse_input_coords: the first char is the column, the rest the row
parse_input_coords(input) ==
    LET col  == IF input # <<>> THEN get_column_number(input[1]) ELSE None
        rest == IF input # <<>> THEN Tail(input) ELSE <<>>
        row  == IF rest # <<>> THEN ParseU8(rest) ELSE None
    IN  OptCoords(row, col)

(***************************************************************************)
(* The GTP wire protocol (gtp crate: Command, Response, EntityParser) and  *)
(* the engine subprocess at the other end of it.                           *)
(***************************************************************************)
\* board size the engine subprocess plays on and reports
EngineBoardSize == 2

\* tokens of a reply text: a vertex, a number, or a word
Vtx(v) == <<"v", v[1], v[2]>>
Num(n) == <<"n", n, 0>>
Word(w) == <<w, 0, 0>>
IsVertexTok(t) == t[1] = "v"

\* str::to_lowercase on the words the engine may answer genmove with
to_lowercase(text) ==
    [i \in 1..Len(text) |->
        IF text[i][1] \in {"PASS", "Pass", "pAsS"} THEN Word("pass")
        ELSE IF text[i][1] \in {"RESIGN", "Resign", "rEsIgN"} THEN Word("resign")
        ELSE text[i]]

NoColor == "-"
NoVertex == <<0, 0>>

\* Command::cmd(cmd_name, args): the line written to the subprocess
Command(name, color, vtx, id) ==
    [name |-> name, color |-> color, vtx |-> vtx, id |-> id]

\* a position of the engine: the vertices holding a stone of each colour
EmptyPosition == [b |-> {}, w |-> {}]
Occupied(p) == p.b \cup p.w
OnBoard(v) == v[1] \in 1..EngineBoardSize /\ v[2] \in 1..EngineBoardSize
BoardVertices == {<<c, r>> : c \in 1..EngineBoardSize, r \in 1..EngineBoardSize}
PutStone(p, color, v) ==
    IF color = Black THEN [p EXCEPT !.b = @ \cup {v}]
    ELSE [p EXCEPT !.w = @ \cup {v}]

\* vertices in the order the engine lists them: by row, then by column
VertexRank(v) == (v[2] - 1) * EngineBoardSize + v[1]
RECURSIVE SortedVertices(_)
SortedVertices(S) ==
    IF S = {} THEN <<>>
    ELSE LET v == CHOOSE x \in S : \A y \in S : VertexRank(x) <= VertexRank(y)
         IN  <<v>> \o SortedVertices(S \ {v})

StonesText(S) ==
    LET vs == SortedVertices(S) IN [i \in 1..Len(vs) |-> Vtx(vs[i])]

\* what the engine may answer to a command in position p, and the position
\* it is in afterwards: [ok, text, pos]
Answer(ok, text, p) == [ok |-> ok, text |-> text, pos |-> p]

ProtocolAnswers(cmd, p) ==
    CASE cmd.name = "query_boardsize" ->
           {Answer(TRUE, <<Num(EngineBoardSize)>>, p)}
      [] cmd.name = "play" ->
           IF OnBoard(cmd.vtx) /\ cmd.vtx \notin Occupied(p)
           THEN {Answer(TRUE, <<>>, PutStone(p, cmd.color, cmd.vtx))}
           ELSE {Answer(FALSE, <<Word("illegal move")>>, p)}
      [] cmd.name = "list_stones" ->
           {Answer(TRUE, StonesText(IF cmd.color = Black THEN p.b ELSE p.w), p)}
      [] cmd.name = "genmove" ->
           LET vacant == BoardVertices \ Occupied(p)
               moves  == IF vacant = {} THEN {}
                         ELSE LET v == SortedVertices(vacant)[1]
                              IN  {Answer(TRUE, <<Vtx(v)>>, PutStone(p, cmd.color, v))}
           IN  moves \cup {Answer(TRUE, <<Word("PASS")>>, p),
                           Answer(TRUE, <<Word("resign")>>, p)}

\* an engine may also reject any command, or answer with text that is no
\* vertex list
FaultAnswers(cmd, p) ==
    {Answer(FALSE, <<Word("unknown command")>>, p),
     Answer(TRUE, <<Word("junk")>>, p)}

(***************************************************************************)
(* State of the actor coordinator.                                         *)
(***************************************************************************)
VARIABLES
    main_pc,          \* main's startup block: "start", "await_board_size", "running"
    main_resp,        \* the reply to QueryBoardSizeMessage, once the handler returned
    crash,            \* "none", or what made a thread panic
    mailbox,          \* EngineActor's mailbox, FIFO
    issued,           \* how many messages were sent to EngineActor
    handling,         \* the message EngineActor's handler is blocked on, if any
    wire,             \* the command lines written to the subprocess, in order
    answered,         \* how many lines of wire the subprocess has answered
    stdout,           \* replies written by the subprocess and not read yet
    pos,              \* the position of the engine subprocess
    results,          \* per line of wire: how its send_and_await ended
    listed,           \* history: per colour, the lists Handler<ListStonesMessage> returned
    faults,           \* timeouts and fault replies so far
    gtp_starts,       \* how many times gtp_engine.start() launched the subprocess
    ctl_mailbox,      \* BoardControllerActor's mailbox, FIFO
    ctl_notify,       \* messages BoardControllerActor notified to itself
    ctl_futs,         \* futures spawned in BoardControllerActor's context
    last_refresh,     \* history: "none", or what the last refresh closure returned
    tbl_mailbox,      \* BoardTableActor's mailbox, FIFO
    tbl_seq,          \* how many requests were sent to BoardTableActor
    board_size,       \* BoardTableActor::board_size
    next_move_input,  \* BoardTableActor::next_move_input
    highlight_coords, \* BoardTableActor::highlight_coords
    white_stones,     \* BoardTableActor::white_stones
    black_stones,     \* BoardTableActor::black_stones
    refresh_ui_request, \* BoardTableActor::refresh_ui_request
    rows,             \* BoardTableActor::rows
    unrendered,       \* history: the kinds of Set messages handled since the last GetTuiRowsMessage
    recomputes,       \* history: how many times refresh_ui_rows ran
    drawn,            \* history: per GetTuiRowsMessage, its reply and the store it read
    refreshes,        \* stone refreshes whose lists were do_send'ed to the store
    refresh_pc,       \* a refresh closure between its two do_send: "idle", "white_sent"
    sets,             \* input and highlight writes do_send'ed to the store
    rdr_pc,           \* render_app's loop: "off", "ready", "drawing", "waiting", "quit"
    keys              \* key events delivered so far

(***************************************************************************)
(* State of GoGame (src/gogame/gogame.rs).                                 *)
(***************************************************************************)
VARIABLES
    board,            \* GoGame::board: <<>> for None, <<Board>> for Some
    gg_input,         \* GoGame::next_move_input
    gtp_status,       \* GoGame::gtp_status: "Idle", "Loading", "Error"
    gtp_error,        \* GoGame::gtp_error: <<>> for None, <<message>> for Some
    should_exit,      \* GoGame::should_exit: None or the exit status
    gg_tasks,         \* the async tasks started by Command::perform and not finished
    gg_msgs,          \* GameMessages the tasks produced, not yet given to update
    gg_panic,         \* TRUE once a task panicked
    gg_accepted,      \* history: the coords of every Enter that started a move
    gg_fetched,       \* history: the lists of the last task whose list_stones both succeeded
    gg_failed,        \* history: <<message>> of the engine call of a move that failed
    gg_ignored        \* history: the statuses other than Idle in which an input key arrived

(***************************************************************************)
(* State of a single call of a pure function of the repository: the        *)
(* helpers, the layout functions and the decoding of a reply.              *)
(***************************************************************************)
VARIABLES
    fn_call,          \* the call: [fn, arg]
    fn_ret            \* <<>> until the call returned, then <<its value>>

fn_vars == <<fn_call, fn_ret>>

\* no call
NoCall == [fn |-> "-", arg |-> 0]

gg_vars == <<board, gg_input, gtp_status, gtp_error, should_exit, gg_tasks,
             gg_msgs, gg_panic, gg_accepted, gg_fetched, gg_failed,
             gg_ignored>>

engine_vars == <<mailbox, issued, handling, wire, answered, stdout, pos,
                 results, listed, faults, gtp_starts>>
ctl_vars == <<ctl_mailbox, ctl_notify, ctl_futs, last_refresh>>
tbl_vars == <<tbl_mailbox, tbl_seq, board_size, next_move_input,
              highlight_coords, white_stones, black_stones,
              refresh_ui_request, rows, unrendered, recomputes>>
store_env == <<drawn, refreshes, refresh_pc, sets>>
actor_vars == <<main_pc, main_resp, crash, engine_vars, ctl_vars, tbl_vars,
                rdr_pc, keys>>

(***************************************************************************)
(* EngineActor (src/core/engine.rs).                                       *)
(***************************************************************************)
\* a message of EngineActor's mailbox
EngineMsg(kind, color, position, id) ==
    [kind |-> kind, color |-> color, position |-> position, id |-> id]

QueryBoardSizeMessage(id) ==
    EngineMsg("QueryBoardSizeMessage", NoColor, Coords(0, 0), id)
PlayMessage(color, position, id) == EngineMsg("PlayMessage", color, position, id)
ListStonesMessage(color, id) ==
    EngineMsg("ListStonesMessage", color, Coords(0, 0), id)
GenMoveMessage(color, id) == EngineMsg("GenMoveMessage", color, Coords(0, 0), id)

\* the command each handler hands to send_and_await
CommandOf(msg) ==
    CASE msg.kind = "QueryBoardSizeMessage" ->
           Command("query_boardsize", NoColor, NoVertex, msg.id)
      [] msg.kind = "PlayMessage" ->
           Command("play", msg.color, vertex(msg.position), msg.id)
      [] msg.kind = "ListStonesMessage" ->
           Command("list_stones", msg.color, NoVertex, msg.id)
      [] msg.kind = "GenMoveMessage" ->
           Command("genmove", msg.color, NoVertex, msg.id)

\* what a handler returns: Ok or Err, whether it sent OnStonesChangeMessage
\* to the listener, and the value of an Ok
HandlerResult(ok, notified, size, stones, gen_move) ==
    [ok |-> ok, notified |-> notified, size |-> size, stones |-> stones,
     gen_move |-> gen_move]
Err == HandlerResult(FALSE, FALSE, 0, <<>>, "-")

\* ResponseWrapper::success_text is Ok for Response::Result
success_text_ok(resp) == resp.ok

\* ResponseWrapper::success_entities(Vertex) is Ok when every token of a
\* Response::Result parses as a vertex
success_entities_ok(resp) ==
    resp.ok /\ \A i \in 1..Len(resp.text) : IsVertexTok(resp.text[i])

\* ResponseWrapper::success_entity pops the last entity
success_entity_ok(resp) == success_entities_ok(resp) /\ resp.text # <<>>

\* a success_coords that reads the vertex as (row, col)
success_coords_Swapped(resp) ==
    LET entity == resp.text[Len(resp.text)]
    IN  [col |-> U8(entity[3]), row |-> U8(entity[2])]

\* ResponseWrapper::success_coords: Entity::Vertex((col, row)) to Coords
success_coords(resp) ==
    LET entity == resp.text[Len(resp.text)]
    IN  [col |-> U8(entity[2]), row |-> U8(entity[3])]

\* a parser_stone_with_color that tags every stone Black
parser_stone_with_color_Black(color, entity) ==
    [color |-> Black, col |-> U8(entity[2]), row |-> U8(entity[3])]

\* EngineActor::parser_stone_with_color
parser_stone_with_color(color, entity) ==
    [color |-> color, col |-> U8(entity[2]), row |-> U8(entity[3])]

\* Handler<QueryBoardSizeMessage>: text.parse::<u8>()
QueryBoardSizeResult(resp) ==
    IF success_text_ok(resp) /\ Len(resp.text) = 1 /\ resp.text[1][1] = "n"
       /\ resp.text[1][2] <= 255
    THEN HandlerResult(TRUE, FALSE, resp.text[1][2], <<>>, "-")
    ELSE Err

\* Handler<PlayMessage>
PlayResult(resp) ==
    IF success_text_ok(resp)
    THEN HandlerResult(TRUE, TRUE, 0, <<>>, "-")
    ELSE Err

\* Handler<ListStonesMessage>
ListStonesResult(msg, resp) ==
    IF success_entities_ok(resp)
    THEN HandlerResult(TRUE, FALSE, 0,
             [i \in 1..Len(resp.text) |->
                 parser_stone_with_color(msg.color, resp.text[i])], "-")
    ELSE Err

\* a Handler<GenMoveMessage> that tells the listener before it decodes the
\* vertex
GenMoveResult_NotifyFirst(resp) ==
    IF ~success_text_ok(resp) THEN Err
    ELSE IF to_lowercase(resp.text) = <<Word("pass")>>
         THEN HandlerResult(TRUE, TRUE, 0, <<>>, "Pass")
    ELSE IF to_lowercase(resp.text) = <<Word("resign")>>
         THEN HandlerResult(TRUE, TRUE, 0, <<>>, "Resign")
    ELSE IF success_entity_ok(resp)
         THEN HandlerResult(TRUE, TRUE, 0, <<>>, "Position")
    ELSE HandlerResult(FALSE, TRUE, 0, <<>>, "-")

\* Handler<GenMoveMessage>: the keywords first, then the vertex; the `?` of
\* success_coords returns before the listener is told
GenMoveResult(resp) ==
    IF ~success_text_ok(resp) THEN Err
    ELSE IF to_lowercase(resp.text) = <<Word("pass")>>
         THEN HandlerResult(TRUE, TRUE, 0, <<>>, "Pass")
    ELSE IF to_lowercase(resp.text) = <<Word("resign")>>
         THEN HandlerResult(TRUE, TRUE, 0, <<>>, "Resign")
    ELSE IF success_entity_ok(resp)
         THEN HandlerResult(TRUE, TRUE, 0, <<>>, "Position")
    ELSE Err

\* AppError { message }
AppError(message) == [message |-> message]
NoError == AppError(<<>>)

\* format!("cmd '{}' returned '{}'", cmd_name, text)
returned(cmd_name, text) == AppError(<<"cmd", cmd_name, "returned", text>>)

\* the Err of ResponseWrapper::success_text: Response::Error
success_text_err(cmd_name, resp) == returned(cmd_name, resp.text)

\* the Err of ResponseWrapper::success_entities: Response::Error, or the
\* map_err of a Response::Result whose text does not parse
success_entities_err(cmd_name, resp) ==
    IF ~resp.ok THEN returned(cmd_name, resp.text)
    ELSE returned(cmd_name, resp.text)

\* the Err of ResponseWrapper::success_entity: that of success_entities,
\* or nothing to pop
success_entity_err(cmd_name, resp) ==
    IF ~success_entities_ok(resp) THEN success_entities_err(cmd_name, resp)
    ELSE AppError(<<"No entity found on response">>)

\* what a handler returns to the sender of its message: Ok(value) or
\* Err(error)
HandlerReturn(ok, value, error) == [ok |-> ok, value |-> value, error |-> error]

\* Handler<ListStonesMessage>: Result<Vec<Stone>, AppError>
ListStonesReturn(msg, resp) ==
    IF success_entities_ok(resp)
    THEN HandlerReturn(TRUE, ListStonesResult(msg, resp).stones, NoError)
    ELSE HandlerReturn(FALSE, <<>>, success_entities_err("list_stones", resp))

\* Handler<GenMoveMessage>: Result<GenMoveResponse, AppError>
GenMoveReturn(resp) ==
    IF ~success_text_ok(resp)
    THEN HandlerReturn(FALSE, <<>>, success_text_err("genmove", resp))
    ELSE IF to_lowercase(resp.text) = <<Word("pass")>>
         THEN HandlerReturn(TRUE, <<"Pass">>, NoError)
    ELSE IF to_lowercase(resp.text) = <<Word("resign")>>
         THEN HandlerReturn(TRUE, <<"Resign">>, NoError)
    ELSE IF success_entity_ok(resp)
         THEN HandlerReturn(TRUE, <<"Position", success_coords(resp)>>, NoError)
    ELSE HandlerReturn(FALSE, <<>>, success_entity_err("genmove", resp))

HandleResponse(msg, resp) ==
    CASE msg.kind = "QueryBoardSizeMessage" -> QueryBoardSizeResult(resp)
      [] msg.kind = "PlayMessage" -> PlayResult(resp)
      [] msg.kind = "ListStonesMessage" -> ListStonesResult(msg, resp)
      [] msg.kind = "GenMoveMessage" -> GenMoveResult(resp)

\* how a send_and_await and its handler ended: st is "pending", "reply" or
\* "timeout"; for is the line of wire the reply it read was written for and
\* marked_ok whether that reply was a Response::Result; ok is whether the
\* handler returned Ok and notified whether it told the listener
Outcome(st, for, marked_ok, ok, notified) ==
    [st |-> st, for |-> for, marked_ok |-> marked_ok, ok |-> ok,
     notified |-> notified]
Pending == Outcome("pending", 0, FALSE, FALSE, FALSE)

\* messages of BoardControllerActor's mailbox
OnStonesChangeMessage == [kind |-> "OnStonesChangeMessage", key |-> ""]
OnEventMessage(key) == [kind |-> "OnEventMessage", key |-> key]

\* the value of a ListStonesMessage request, as its future sees it
StonesReply(res) == [ok |-> res.ok, stones |-> res.stones]

\* an EngineActor whose handlers would be futures: the next message is taken
\* while the previous command waits for its reply
EngineIdle_Async == TRUE

\* a handler is a plain fn: EngineActor takes the next message only when
\* the previous handler has returned
EngineIdle == handling = <<>>

\* the handler's return value reaches the sender, and, on success of play
\* or genmove, msg.listener.do_send(OnStonesChangeMessage)
Return(msg, res) ==
    /\ main_resp' = IF msg.kind = "QueryBoardSizeMessage" THEN <<res>> ELSE main_resp
    /\ ctl_futs' =
         IF msg.kind = "ListStonesMessage"
         THEN {IF f.wid = msg.id THEN [f EXCEPT !.wres = <<StonesReply(res)>>]
               ELSE IF f.bid = msg.id THEN [f EXCEPT !.bres = <<StonesReply(res)>>]
               ELSE f : f \in ctl_futs}
         ELSE ctl_futs
    /\ ctl_mailbox' =
         IF res.notified THEN Append(ctl_mailbox, OnStonesChangeMessage)
         ELSE ctl_mailbox

\* a mailbox served newest first
EngineSend_Lifo ==
    /\ crash = "none"
    /\ handling = <<>>
    /\ mailbox # <<>>
    /\ LET msg == mailbox[Len(mailbox)]
       IN  /\ mailbox' = SubSeq(mailbox, 1, Len(mailbox) - 1)
           /\ handling' = <<msg>>
           /\ wire' = Append(wire, CommandOf(msg))
           /\ results' = Append(results, Pending)
    /\ UNCHANGED <<fn_vars, gg_vars, store_env, listed, gtp_starts, main_pc, main_resp, crash, issued, answered, stdout, pos,
                   faults, ctl_vars, tbl_vars, rdr_pc, keys>>

\* a send_and_await that discards the replies already waiting before it
\* writes its command
EngineSend_Drain ==
    /\ crash = "none"
    /\ handling = <<>>
    /\ mailbox # <<>>
    /\ LET msg == Head(mailbox)
       IN  /\ mailbox' = Tail(mailbox)
           /\ handling' = <<msg>>
           /\ wire' = Append(wire, CommandOf(msg))
           /\ results' = Append(results, Pending)
    /\ stdout' = <<>>
    /\ UNCHANGED <<fn_vars, gg_vars, store_env, listed, gtp_starts, main_pc, main_resp, crash, issued, answered, pos,
                   faults, ctl_vars, tbl_vars, rdr_pc, keys>>

\* a send_and_await that writes the command again when wait_response gives
\* up
EngineTimeout_Retry ==
    /\ crash = "none"
    /\ handling # <<>>
    /\ stdout = <<>>
    /\ faults < MaxFaults
    /\ faults' = faults + 1
    /\ wire' = Append(wire, CommandOf(handling[1]))
    /\ results' = Append([results EXCEPT ![Len(results)] =
                             Outcome("timeout", 0, FALSE, FALSE, FALSE)], Pending)
    /\ UNCHANGED <<fn_vars, gg_vars, store_env, listed, gtp_starts, main_pc, main_resp, crash, mailbox, issued, handling,
                   answered, stdout, pos, ctl_vars, tbl_vars, rdr_pc, keys>>

\* a handler starts: send_and_await builds the command and writes it
\* (self.gtp_engine.send(cmd)), then blocks in wait_response
EngineSend ==
    /\ crash = "none"
    /\ EngineIdle
    /\ mailbox # <<>>
    /\ LET msg == Head(mailbox)
       IN  /\ mailbox' = Tail(mailbox)
           /\ handling' = <<msg>>
           /\ wire' = Append(wire, CommandOf(msg))
           /\ results' = Append(results, Pending)
    /\ UNCHANGED <<fn_vars, gg_vars, store_env, listed, gtp_starts, main_pc, main_resp, crash, issued, answered, stdout, pos,
                   faults, ctl_vars, tbl_vars, rdr_pc, keys>>

\* wait_response returns the first reply the subprocess has written; the
\* handler decodes it and returns
EngineReply ==
    /\ crash = "none"
    /\ handling # <<>>
    /\ stdout # <<>>
    /\ LET msg  == handling[1]
           resp == Head(stdout)
           res  == HandleResponse(msg, resp)
       IN  /\ stdout' = Tail(stdout)
           /\ handling' = <<>>
           /\ results' = [results EXCEPT ![Len(results)] =
                             Outcome("reply", resp.for, resp.ok, res.ok, res.notified)]
           /\ listed' = IF msg.kind = "ListStonesMessage" /\ res.ok
                        THEN [listed EXCEPT ![msg.color] = @ \cup {res.stones}]
                        ELSE listed
           /\ Return(msg, res)
    /\ UNCHANGED <<fn_vars, gg_vars, store_env, last_refresh, gtp_starts, main_pc, crash, mailbox, issued, wire, answered, pos,
                   faults, ctl_notify, tbl_vars, rdr_pc, keys>>

\* a send_and_await whose timeout stops the actor
EngineTimeout_Fatal ==
    /\ crash = "none"
    /\ handling # <<>>
    /\ stdout = <<>>
    /\ faults < MaxFaults
    /\ faults' = faults + 1
    /\ handling' = <<>>
    /\ crash' = "engine_timeout"
    /\ results' = [results EXCEPT ![Len(results)] =
                      Outcome("timeout", 0, FALSE, FALSE, FALSE)]
    /\ Return(handling[1], Err)
    /\ UNCHANGED <<fn_vars, gg_vars, store_env, listed, last_refresh, gtp_starts, main_pc, mailbox, issued, wire, answered, stdout, pos,
                   ctl_notify, tbl_vars, rdr_pc, keys>>

\* wait_response gives up: no reply was there when the deadline passed; the
\* `?` of send_and_await returns the error
EngineTimeout ==
    /\ crash = "none"
    /\ handling # <<>>
    /\ stdout = <<>>
    /\ faults < MaxFaults
    /\ faults' = faults + 1
    /\ handling' = <<>>
    /\ results' = [results EXCEPT ![Len(results)] =
                      Outcome("timeout", 0, FALSE, FALSE, FALSE)]
    /\ Return(handling[1], Err)
    /\ UNCHANGED <<fn_vars, gg_vars, store_env, listed, last_refresh, gtp_starts, main_pc, crash, mailbox, issued, wire, answered, stdout, pos,
                   ctl_notify, tbl_vars, rdr_pc, keys>>

\* the subprocess answers the next command line it has read
ProcReply ==
    /\ crash = "none"
    /\ answered < Len(wire)
    /\ LET cmd == wire[answered + 1]
       IN  \/ \E a \in ProtocolAnswers(cmd, pos) :
                /\ stdout' = Append(stdout,
                       [ok |-> a.ok, text |-> a.text, for |-> answered + 1])
                /\ pos' = a.pos
                /\ faults' = faults
           \/ /\ faults < MaxFaults
              /\ \E a \in FaultAnswers(cmd, pos) :
                   /\ stdout' = Append(stdout,
                          [ok |-> a.ok, text |-> a.text, for |-> answered + 1])
                   /\ pos' = a.pos
                   /\ faults' = faults + 1
    /\ answered' = answered + 1
    /\ UNCHANGED <<fn_vars, gg_vars, store_env, gtp_starts, main_pc, main_resp, crash, mailbox, issued, handling, wire,
                   results, listed, ctl_vars, tbl_vars, rdr_pc, keys>>

(***************************************************************************)
(* BoardTableActor (src/view/board/board_table.rs): the rows of the board. *)
(***************************************************************************)
\* bound on the board size the store is created with when the store is
\* checked on its own
StoreBoardSize == 3

\* get_column_name: the letter I is skipped
get_column_name(col) ==
    LET add == IF col >= 9 THEN 1 ELSE 0
    IN  Alphabet[col + add]

DigitChar(n) == CHOOSE d \in number_range : DigitValue(d) = n

\* format!("{}", n) of a u8
RECURSIVE DecimalString(_)
DecimalString(n) ==
    IF n < 10 THEN <<DigitChar(n)>>
    ELSE DecimalString(n \div 10) \o <<DigitChar(n % 10)>>

Padding(s, width) == [i \in 1..(IF Len(s) < width THEN width - Len(s) ELSE 0) |-> " "]
\* format!("{: >3}", n) and format!("{: <3}", n)
PadLeft(s, width) == Padding(s, width) \o s
PadRight(s, width) == s \o Padding(s, width)

\* tui::style::Style; its colours are named by the Theme field they come from
Style(fg, bg, modifier) == [fg |-> fg, bg |-> bg, modifier |-> modifier]
StyleDefault == Style("none", "none", "none")
fg(style, color) == [style EXCEPT !.fg = color]
bg(style, color) == [style EXCEPT !.bg = color]
add_modifier(style, modifier) == [style EXCEPT !.modifier = modifier]

\* BoardCell::new, BoardCell::spacing, BoardCell::styled_spacing
BoardCell(cell_text, cell_style, stone) ==
    [cell_text |-> cell_text, cell_style |-> cell_style, stone |-> stone]
spacing == BoardCell(<<>>, <<>>, <<>>)
styled_spacing(style) == BoardCell(<<>>, <<style>>, <<>>)

\* a make_star_points that adds the four side points from size 13 on
make_star_points_Nine13(size) ==
    LET margin == IF size >= 13 THEN 4 ELSE 3
        middle == size \div 2
        far    == U8(U8(size - margin) + 1)
        points == <<Coords(margin, margin), Coords(margin, far),
                    Coords(far, margin), Coords(far, far),
                    Coords(middle, middle)>>
    IN  IF size >= 13
        THEN points \o <<Coords(margin, middle), Coords(far, middle),
                         Coords(middle, margin), Coords(middle, far)>>
        ELSE points

\* gen_star_points of src/gogame/board.rs: the same computation
gen_star_points(size) ==
    LET margin == IF size >= 13 THEN 4 ELSE 3
        middle == size \div 2
        far    == U8(U8(size - margin) + 1)
        points == <<Coords(margin, margin), Coords(margin, far),
                    Coords(far, margin), Coords(far, far),
                    Coords(middle, middle)>>
    IN  IF size >= 19
        THEN points \o <<Coords(margin, middle), Coords(far, middle),
                         Coords(middle, margin), Coords(middle, far)>>
        ELSE points

\* BoardTableActor::make_star_points
make_star_points(size) ==
    LET margin == IF size >= 13 THEN 4 ELSE 3
        middle == size \div 2
        far    == U8(U8(size - margin) + 1)
        points == <<Coords(margin, margin), Coords(margin, far),
                    Coords(far, margin), Coords(far, far),
                    Coords(middle, middle)>>
    IN  IF size >= 19
        THEN points \o <<Coords(margin, middle), Coords(far, middle),
                         Coords(middle, margin), Coords(middle, far)>>
        ELSE points

is_column_highlighted(highlight, column) == highlight.col = column
is_row_highlighted(highlight, row) == highlight.row = row

\* BoardTableActor::make_header_row
make_header_row(size, highlight, default_header_style) ==
    LET header(column) ==
            BoardCell(<<get_column_name(column)>>,
                      <<IF is_column_highlighted(highlight, column)
                        THEN bg(default_header_style, "board_bg_hl_color")
                        ELSE default_header_style>>,
                      <<>>)
    IN  [i \in 1..(2 * size + 3) |->
            IF i = 1 \/ i > 2 * size + 1 \/ i % 2 = 0 THEN spacing
            ELSE header((i - 1) \div 2)]

\* slice::sort_by(|a, b| b.col.cmp(&a.col)): stable, the larger col first
RECURSIVE sort_by_col_desc(_)
sort_by_col_desc(s) ==
    IF s = <<>> THEN <<>>
    ELSE LET rest == sort_by_col_desc(Tail(s))
             k    == Cardinality({i \in 1..Len(rest) : rest[i].col > Head(s).col})
         IN  SubSeq(rest, 1, k) \o <<Head(s)>> \o SubSeq(rest, k + 1, Len(rest))

\* Vec::pop after the element was taken
Pop(s) == SubSeq(s, 1, Len(s) - 1)

\* the loop of make_line_row from `column` on; line_stones and
\* line_star_points are the vectors with their *_next element still on top
RECURSIVE line_cells(_, _, _, _, _, _, _)
line_cells(column, size, highlight, line_nr, default_intersection_style, line_stones, line_star_points) ==
    IF column > size THEN <<>>
    ELSE
    LET has_stone == line_stones # <<>> /\ line_stones[Len(line_stones)].col = column
        stone     == IF has_stone THEN <<line_stones[Len(line_stones)]>> ELSE <<>>
        is_star_point ==
            /\ line_star_points # <<>>
            /\ line_star_points[Len(line_star_points)].col = column
        intersection_char ==
            IF is_star_point THEN "intersection_star_char" ELSE "intersection_char"
        intersection_style ==
            IF is_star_point
            THEN fg(default_intersection_style, "intersection_star_color")
            ELSE default_intersection_style
        stone_style ==
            IF ~has_stone THEN intersection_style
            ELSE IF stone[1].color = White
                 THEN fg(default_intersection_style, "white_stone_color")
                 ELSE fg(default_intersection_style, "black_stone_color")
        selected_style ==
            IF is_row_highlighted(highlight, line_nr)
               \/ is_column_highlighted(highlight, column)
            THEN bg(stone_style, "board_bg_hl_color")
            ELSE stone_style
        cell_text ==
            IF ~has_stone THEN <<intersection_char>>
            ELSE IF stone[1].color = White THEN <<"white_stone_char">>
                 ELSE <<"black_stone_char">>
        separator ==
            IF column > 1
            THEN BoardCell(<<"intersection_horiz_char">>,
                           <<default_intersection_style>>, <<>>)
            ELSE styled_spacing(default_intersection_style)
    IN  <<separator, BoardCell(cell_text, <<selected_style>>, stone)>>
        \o line_cells(column + 1, size, highlight, line_nr,
                      default_intersection_style,
                      IF has_stone THEN Pop(line_stones) ELSE line_stones,
                      IF is_star_point THEN Pop(line_star_points)
                      ELSE line_star_points)

\* BoardTableActor::make_line_row
make_line_row(size, highlight, header_style, default_intersection_style, line_nr, line_stones, line_star_points) ==
    LET hl == is_row_highlighted(highlight, line_nr)
        intersection == IF hl THEN bg(default_intersection_style, "board_bg_hl_color")
                        ELSE default_intersection_style
        header == IF hl THEN bg(header_style, "board_bg_hl_color") ELSE header_style
    IN  <<BoardCell(PadLeft(DecimalString(line_nr), 3), <<header>>, <<>>)>>
        \o line_cells(1, size, highlight, line_nr, intersection,
                      sort_by_col_desc(line_stones),
                      sort_by_col_desc(line_star_points))
        \o <<styled_spacing(intersection),
             BoardCell(PadRight(DecimalString(line_nr), 3), <<header>>, <<>>)>>

\* BoardTableActor::refresh_ui_rows: the value it gives self.rows
refresh_ui_rows(size, white, black, highlight, star_points) ==
    LET default_style == fg(bg(StyleDefault, "board_bg_color"), "text_fg_color")
        header_style == add_modifier(default_style, "header_text_style")
        intersection_style == fg(default_style, "intersection_color")
        on_line(s, line) == SelectSeq(s, LAMBDA x : x.row = line)
        line_row(line) ==
            make_line_row(size, highlight, header_style, intersection_style,
                          line, on_line(white \o black, line),
                          on_line(star_points, line))
    IN  <<make_header_row(size, highlight, header_style)>>
        \o [k \in 1..size |-> line_row(size - k + 1)]
        \o <<make_header_row(size, highlight, header_style)>>

\* the Vec<Row> Handler<GetTuiRowsMessage> returns for self.rows
TuiRows(board_rows) ==
    [r \in 1..Len(board_rows) |->
        [c \in 1..Len(board_rows[r]) |->
            [text  |-> board_rows[r][c].cell_text,
             style |-> IF board_rows[r][c].cell_style = <<>> THEN StyleDefault
                       ELSE board_rows[r][c].cell_style[1]]]]

\* BoardTableActor::new: the width of the two line-number columns
number_column_size == 3

\* a Handler<GetTuiWidthsMessage> without the width of the spacing cell
tui_widths_NoSpacing(size) ==
    <<number_column_size>> \o [k \in 1..(2 * size) |-> 1] \o <<number_column_size>>

\* Handler<GetTuiWidthsMessage>: the Constraint::Length of each column: the
\* number column, a padding and a column per board column, the spacing
\* cell, the number column
tui_widths(size) ==
    <<number_column_size>> \o [k \in 1..(2 * size) |-> 1] \o <<1, number_column_size>>

(***************************************************************************)
(* main (src/main.rs): the startup block.                                  *)
(***************************************************************************)
\* engine_addr.send(QueryBoardSizeMessage {})
MainQueryBoardSize ==
    /\ crash = "none"
    /\ main_pc = "start"
    /\ main_pc' = "await_board_size"
    /\ mailbox' = Append(mailbox, QueryBoardSizeMessage(issued + 1))
    /\ issued' = issued + 1
    /\ UNCHANGED <<fn_vars, gg_vars, store_env, gtp_starts, main_resp, crash, handling, wire, answered, stdout, pos,
                   results, listed, faults, ctl_vars, tbl_vars, rdr_pc, keys>>

\* .await.unwrap().unwrap(): an Err panics the thread that runs the actor
\* system, and main's recv().unwrap() panics after it; an Ok starts
\* BoardTableActor (BoardTableActor::new computes the rows of the empty
\* board) and BoardControllerActor and the render loop
MainBoardSize ==
    /\ crash = "none"
    /\ main_pc = "await_board_size"
    /\ main_resp # <<>>
    /\ IF main_resp[1].ok
       THEN /\ main_pc' = "running"
            /\ board_size' = main_resp[1].size
            /\ rows' = refresh_ui_rows(main_resp[1].size, <<>>, <<>>,
                                       OptCoordsDefault,
                                       make_star_points(main_resp[1].size))
            /\ recomputes' = recomputes + 1
            /\ UNCHANGED <<refresh_ui_request, unrendered>>
            /\ rdr_pc' = "ready"
            /\ crash' = crash
       ELSE /\ crash' = "board_size_query"
            /\ UNCHANGED <<main_pc, board_size, refresh_ui_request, rows, unrendered, recomputes, rdr_pc>>
    /\ UNCHANGED <<fn_vars, gg_vars, store_env, main_resp, engine_vars, ctl_vars, tbl_mailbox, tbl_seq,
                   next_move_input, highlight_coords, white_stones,
                   black_stones, keys>>

(***************************************************************************)
(* BoardTableActor (src/view/board/board_table.rs): the store.             *)
(***************************************************************************)
TblMsg(kind, req, text, coords, stones) ==
    [kind |-> kind, req |-> req, text |-> text, coords |-> coords,
     stones |-> stones]
GetNextMoveInput(req) ==
    TblMsg("GetNextMoveInput", req, <<>>, OptCoordsDefault, <<>>)
GetHighlightCoordsMessage(req) ==
    TblMsg("GetHighlightCoordsMessage", req, <<>>, OptCoordsDefault, <<>>)
SetNextMoveInput(text) ==
    TblMsg("SetNextMoveInput", 0, text, OptCoordsDefault, <<>>)
SetHightlightCoordsMessage(coords) ==
    TblMsg("SetHightlightCoordsMessage", 0, <<>>, coords, <<>>)
SetWhiteStonesMessage(stones) ==
    TblMsg("SetWhiteStonesMessage", 0, <<>>, OptCoordsDefault, stones)
SetBlackStonesMessage(stones) ==
    TblMsg("SetBlackStonesMessage", 0, <<>>, OptCoordsDefault, stones)
GetTuiRowsMessage ==
    TblMsg("GetTuiRowsMessage", 0, <<>>, OptCoordsDefault, <<>>)

\* the value of a Get request, as the asking future sees it
TblReply(inp, hl) == [inp |-> inp, hl |-> hl]

\* Handler<GetNextMoveInput>, Handler<GetHighlightCoordsMessage>
TblGet ==
    /\ crash = "none"
    /\ tbl_mailbox # <<>>
    /\ Head(tbl_mailbox).kind \in {"GetNextMoveInput", "GetHighlightCoordsMessage"}
    /\ LET msg == Head(tbl_mailbox)
           val == IF msg.kind = "GetNextMoveInput"
                  THEN TblReply(next_move_input, OptCoordsDefault)
                  ELSE TblReply(<<>>, highlight_coords)
       IN  ctl_futs' = {IF f.req = msg.req THEN [f EXCEPT !.resp = <<val>>] ELSE f :
                           f \in ctl_futs}
    /\ tbl_mailbox' = Tail(tbl_mailbox)
    /\ UNCHANGED <<fn_vars, gg_vars, store_env, last_refresh, main_pc, main_resp, crash, engine_vars, ctl_mailbox, ctl_notify,
                   tbl_seq, board_size, refresh_ui_request, rows, unrendered, recomputes, next_move_input, highlight_coords,
                   white_stones, black_stones, rdr_pc, keys>>

\* TblSet, had the handler of SetHightlightCoordsMessage left
\* refresh_ui_request alone
TblSet_StonesOnly ==
    /\ crash = "none"
    /\ tbl_mailbox # <<>>
    /\ LET msg == Head(tbl_mailbox)
       IN  /\ msg.kind \in {"SetNextMoveInput", "SetHightlightCoordsMessage",
                            "SetWhiteStonesMessage", "SetBlackStonesMessage"}
           /\ next_move_input' =
                IF msg.kind = "SetNextMoveInput" THEN msg.text ELSE next_move_input
           /\ highlight_coords' =
                IF msg.kind = "SetHightlightCoordsMessage" THEN msg.coords
                ELSE highlight_coords
           /\ white_stones' =
                IF msg.kind = "SetWhiteStonesMessage" THEN msg.stones ELSE white_stones
           /\ black_stones' =
                IF msg.kind = "SetBlackStonesMessage" THEN msg.stones ELSE black_stones
           /\ refresh_ui_request' =
                IF msg.kind \in {"SetNextMoveInput", "SetHightlightCoordsMessage"}
                THEN refresh_ui_request ELSE TRUE
           /\ unrendered' = unrendered \cup {msg.kind}
    /\ tbl_mailbox' = Tail(tbl_mailbox)
    /\ UNCHANGED <<fn_vars, gg_vars, store_env, main_pc, main_resp, crash, engine_vars, ctl_vars, tbl_seq,
                   board_size, rows, recomputes, rdr_pc, keys>>

\* Handler<SetNextMoveInput>, Handler<SetHightlightCoordsMessage>,
\* Handler<SetWhiteStonesMessage>, Handler<SetBlackStonesMessage>: the
\* last three set refresh_ui_request, the first does not
TblSet ==
    /\ crash = "none"
    /\ tbl_mailbox # <<>>
    /\ LET msg == Head(tbl_mailbox)
       IN  /\ msg.kind \in {"SetNextMoveInput", "SetHightlightCoordsMessage",
                            "SetWhiteStonesMessage", "SetBlackStonesMessage"}
           /\ next_move_input' =
                IF msg.kind = "SetNextMoveInput" THEN msg.text ELSE next_move_input
           /\ highlight_coords' =
                IF msg.kind = "SetHightlightCoordsMessage" THEN msg.coords
                ELSE highlight_coords
           /\ white_stones' =
                IF msg.kind = "SetWhiteStonesMessage" THEN msg.stones ELSE white_stones
           /\ black_stones' =
                IF msg.kind = "SetBlackStonesMessage" THEN msg.stones ELSE black_stones
           /\ refresh_ui_request' =
                IF msg.kind = "SetNextMoveInput" THEN refresh_ui_request ELSE TRUE
           /\ unrendered' = unrendered \cup {msg.kind}
    /\ tbl_mailbox' = Tail(tbl_mailbox)
    /\ UNCHANGED <<fn_vars, gg_vars, store_env, main_pc, main_resp, crash, engine_vars, ctl_vars, tbl_seq,
                   board_size, rows, recomputes, rdr_pc, keys>>

\* what a GetTuiRowsMessage gives the render loop, with the store it was
\* computed in
Drawn(tui_rows) ==
    [rows |-> tui_rows, white |-> white_stones, black |-> black_stones,
     highlight |-> highlight_coords]

\* TblGetTuiRows, had it recomputed the rows on every request
TblGetTuiRows_Always ==
    /\ crash = "none"
    /\ tbl_mailbox # <<>>
    /\ Head(tbl_mailbox).kind = "GetTuiRowsMessage"
    /\ rows' = refresh_ui_rows(board_size, white_stones, black_stones,
                               highlight_coords, make_star_points(board_size))
    /\ recomputes' = recomputes + 1
    /\ unrendered' = {}
    /\ refresh_ui_request' = FALSE
    /\ drawn' = Append(drawn, Drawn(TuiRows(rows')))
    /\ rdr_pc' = "ready"
    /\ tbl_mailbox' = Tail(tbl_mailbox)
    /\ UNCHANGED <<fn_vars, gg_vars, main_pc, main_resp, crash, engine_vars, ctl_vars,
                   tbl_seq, board_size, next_move_input, highlight_coords,
                   white_stones, black_stones, refreshes, refresh_pc, sets,
                   keys>>

\* TblGetTuiRows, had it answered with the rows it held before it looked at
\* refresh_ui_request
TblGetTuiRows_Stale ==
    /\ crash = "none"
    /\ tbl_mailbox # <<>>
    /\ Head(tbl_mailbox).kind = "GetTuiRowsMessage"
    /\ IF refresh_ui_request
       THEN /\ rows' = refresh_ui_rows(board_size, white_stones, black_stones,
                                       highlight_coords,
                                       make_star_points(board_size))
            /\ recomputes' = recomputes + 1
       ELSE UNCHANGED <<rows, recomputes>>
    /\ refresh_ui_request' = FALSE
    /\ unrendered' = {}
    /\ drawn' = Append(drawn, Drawn(TuiRows(rows)))
    /\ rdr_pc' = "ready"
    /\ tbl_mailbox' = Tail(tbl_mailbox)
    /\ UNCHANGED <<fn_vars, gg_vars, main_pc, main_resp, crash, engine_vars, ctl_vars,
                   tbl_seq, board_size, next_move_input, highlight_coords,
                   white_stones, black_stones, refreshes, refresh_pc, sets,
                   keys>>

\* Handler<GetTuiRowsMessage>: refresh_ui_rows() only if refresh_ui_request,
\* which it then clears; the reply is self.rows; star_points is what new
\* made of board_size
TblGetTuiRows ==
    /\ crash = "none"
    /\ tbl_mailbox # <<>>
    /\ Head(tbl_mailbox).kind = "GetTuiRowsMessage"
    /\ IF refresh_ui_request
       THEN /\ rows' = refresh_ui_rows(board_size, white_stones, black_stones,
                                       highlight_coords,
                                       make_star_points(board_size))
            /\ recomputes' = recomputes + 1
       ELSE UNCHANGED <<rows, recomputes>>
    /\ refresh_ui_request' = FALSE
    /\ unrendered' = {}
    /\ drawn' = Append(drawn, Drawn(TuiRows(rows')))
    /\ rdr_pc' = "ready"
    /\ tbl_mailbox' = Tail(tbl_mailbox)
    /\ UNCHANGED <<fn_vars, gg_vars, main_pc, main_resp, crash, engine_vars, ctl_vars,
                   tbl_seq, board_size, next_move_input, highlight_coords,
                   white_stones, black_stones, refreshes, refresh_pc, sets,
                   keys>>

(***************************************************************************)
(* BoardControllerActor (src/view/board/board_controller.rs).              *)
(***************************************************************************)
\* BoardControllerActor::new
player_color == Black
ai_color == White

\* a future spawned in the actor's context: kind is "key", "enter", "upd" or
\* "refresh"; req is the store request it waits for and resp its reply;
\* wid and bid are the two ListStonesMessage requests of a refresh, wres and
\* bres their replies
Fut(kind, key, req, wid, bid) ==
    [kind |-> kind, key |-> key, req |-> req, resp |-> <<>>,
     wid |-> wid, bid |-> bid, wres |-> <<>>, bres |-> <<>>]

Running == crash = "none" /\ main_pc = "running"

\* Handler<OnStonesChangeMessage>: ctx.notify(RefreshStonesMessage {})
CtlOnStonesChange ==
    /\ Running
    /\ ctl_mailbox # <<>>
    /\ Head(ctl_mailbox).kind = "OnStonesChangeMessage"
    /\ ctl_mailbox' = Tail(ctl_mailbox)
    /\ ctl_notify' = Append(ctl_notify, "RefreshStonesMessage")
    /\ UNCHANGED <<fn_vars, gg_vars, store_env, last_refresh, main_pc, main_resp, crash, engine_vars, ctl_futs, tbl_vars,
                   rdr_pc, keys>>

\* Handler<OnEventMessage<Key>>: 'q' quits, keys outside the ranges and ticks
\* do nothing; both reply at once
CtlOnEventReply ==
    /\ Running
    /\ ctl_mailbox # <<>>
    /\ Head(ctl_mailbox).kind = "OnEventMessage"
    /\ Head(ctl_mailbox).key \in {"q", "Tick"}
    /\ ctl_mailbox' = Tail(ctl_mailbox)
    /\ rdr_pc' = IF Head(ctl_mailbox).key = "q" THEN "quit" ELSE "ready"
    /\ UNCHANGED <<fn_vars, gg_vars, store_env, last_refresh, main_pc, main_resp, crash, engine_vars, ctl_notify, ctl_futs,
                   tbl_vars, keys>>

\* Handler<OnEventMessage<Key>>, a letter, a digit or Backspace: ask the
\* store for the pending input and go on when it answers
CtlOnEventInput ==
    /\ Running
    /\ ctl_mailbox # <<>>
    /\ Head(ctl_mailbox).kind = "OnEventMessage"
    /\ Head(ctl_mailbox).key \in char_range \cup number_range \cup {"Backspace"}
    /\ ctl_mailbox' = Tail(ctl_mailbox)
    /\ tbl_mailbox' = Append(tbl_mailbox, GetNextMoveInput(tbl_seq + 1))
    /\ tbl_seq' = tbl_seq + 1
    /\ ctl_futs' = ctl_futs \cup {Fut("key", Head(ctl_mailbox).key, tbl_seq + 1, 0, 0)}
    /\ UNCHANGED <<fn_vars, gg_vars, store_env, last_refresh, main_pc, main_resp, crash, engine_vars, ctl_notify, board_size, refresh_ui_request, rows, unrendered, recomputes,
                   next_move_input, highlight_coords, white_stones, black_stones,
                   rdr_pc, keys>>

\* Handler<OnEventMessage<Key>>, Enter: ask the store for the highlight
CtlOnEventEnter ==
    /\ Running
    /\ ctl_mailbox # <<>>
    /\ Head(ctl_mailbox).kind = "OnEventMessage"
    /\ Head(ctl_mailbox).key = "Enter"
    /\ ctl_mailbox' = Tail(ctl_mailbox)
    /\ tbl_mailbox' = Append(tbl_mailbox, GetHighlightCoordsMessage(tbl_seq + 1))
    /\ tbl_seq' = tbl_seq + 1
    /\ ctl_futs' = ctl_futs \cup {Fut("enter", "Enter", tbl_seq + 1, 0, 0)}
    /\ UNCHANGED <<fn_vars, gg_vars, store_env, last_refresh, main_pc, main_resp, crash, engine_vars, ctl_notify, board_size, refresh_ui_request, rows, unrendered, recomputes,
                   next_move_input, highlight_coords, white_stones, black_stones,
                   rdr_pc, keys>>

\* a key closure that takes a letter whatever the input holds
InputAfterKey_AnyLetter(key, input) ==
    IF key \in char_range
    THEN Append(input, key)
    ELSE IF key \in number_range
    THEN IF input # <<>> /\ Len(input) < 3 THEN Append(input, key) ELSE input
    ELSE IF input # <<>> THEN SubSeq(input, 1, Len(input) - 1) ELSE input

\* a key closure that takes no digit right after the letter
InputAfterKey_LateDigit(key, input) ==
    IF key \in char_range
    THEN IF input = <<>> THEN Append(input, key) ELSE input
    ELSE IF key \in number_range
    THEN IF Len(input) > 1 /\ Len(input) < 3 THEN Append(input, key) ELSE input
    ELSE IF input # <<>> THEN SubSeq(input, 1, Len(input) - 1) ELSE input

\* the pending input after a key, given the input the store answered with
InputAfterKey(key, input) ==
    IF key \in char_range
    THEN IF input = <<>> THEN Append(input, key) ELSE input
    ELSE IF key \in number_range
    THEN IF input # <<>> /\ Len(input) < 3 THEN Append(input, key) ELSE input
    ELSE IF input # <<>> THEN SubSeq(input, 1, Len(input) - 1) ELSE input

\* the closure of a letter, digit or Backspace event: set_next_move_input
\* when the input changes, notify UpdateHightlightCoordsMessage, reply
CtlKeyDone ==
    /\ Running
    /\ \E f \in ctl_futs :
         /\ f.kind = "key"
         /\ f.resp # <<>>
         /\ LET input == f.resp[1].inp
                after == InputAfterKey(f.key, input)
            IN  tbl_mailbox' = IF after # input
                               THEN Append(tbl_mailbox, SetNextMoveInput(after))
                               ELSE tbl_mailbox
         /\ ctl_futs' = ctl_futs \ {f}
    /\ ctl_notify' = Append(ctl_notify, "UpdateHightlightCoordsMessage")
    /\ rdr_pc' = "ready"
    /\ UNCHANGED <<fn_vars, gg_vars, store_env, last_refresh, main_pc, main_resp, crash, engine_vars, ctl_mailbox, tbl_seq,
                   board_size, refresh_ui_request, rows, unrendered, recomputes, next_move_input, highlight_coords, white_stones,
                   black_stones, keys>>

\* the closure of an Enter event with a highlight that has a row and a col:
\* do_send(PlayMessage), notify(RefreshStonesMessage), set_next_move_input(""),
\* notify(UpdateHightlightCoordsMessage), do_send(GenMoveMessage), reply
CtlEnterDone ==
    /\ Running
    /\ \E f \in ctl_futs :
         /\ f.kind = "enter"
         /\ f.resp # <<>>
         /\ TryIntoCoordsOk(f.resp[1].hl)
         /\ mailbox' = mailbox \o
              <<PlayMessage(player_color,
                            Coords(f.resp[1].hl.row, f.resp[1].hl.col), issued + 1),
                GenMoveMessage(ai_color, issued + 2)>>
         /\ ctl_futs' = ctl_futs \ {f}
    /\ issued' = issued + 2
    /\ ctl_notify' = ctl_notify \o
         <<"RefreshStonesMessage", "UpdateHightlightCoordsMessage">>
    /\ tbl_mailbox' = Append(tbl_mailbox, SetNextMoveInput(<<>>))
    /\ rdr_pc' = "ready"
    /\ UNCHANGED <<fn_vars, gg_vars, store_env, last_refresh, gtp_starts, main_pc, main_resp, crash, handling, wire, answered, stdout,
                   pos, results, listed, faults, ctl_mailbox, tbl_seq,
                   board_size, refresh_ui_request, rows, unrendered, recomputes, next_move_input, highlight_coords, white_stones,
                   black_stones, keys>>

\* the closure of an Enter event with a highlight that lacks a row or a col:
\* try_into() is Err and .unwrap() panics while the PlayMessage is being
\* built; the actor's thread is gone, and with it the reply render_app
\* unwraps
CtlEnterPanic ==
    /\ Running
    /\ \E f \in ctl_futs :
         /\ f.kind = "enter"
         /\ f.resp # <<>>
         /\ ~TryIntoCoordsOk(f.resp[1].hl)
    /\ crash' = "invalid_coordinate"
    /\ UNCHANGED <<fn_vars, gg_vars, store_env, main_pc, main_resp, engine_vars, ctl_vars, tbl_vars, rdr_pc, keys>>

\* a refresh that asks the engine for the board size again before the lists
CtlRefresh_Requery ==
    /\ Running
    /\ ctl_notify # <<>>
    /\ Head(ctl_notify) = "RefreshStonesMessage"
    /\ ctl_notify' = Tail(ctl_notify)
    /\ mailbox' = mailbox \o <<QueryBoardSizeMessage(issued + 1),
                               ListStonesMessage(White, issued + 2),
                               ListStonesMessage(Black, issued + 3)>>
    /\ issued' = issued + 3
    /\ ctl_futs' = ctl_futs \cup {Fut("refresh", "", 0, issued + 2, issued + 3)}
    /\ UNCHANGED <<fn_vars, gg_vars, store_env, last_refresh, gtp_starts, main_pc, main_resp, crash, handling, wire, answered, stdout,
                   pos, results, listed, faults, ctl_mailbox, tbl_vars, rdr_pc,
                   keys>>

\* Handler<RefreshStonesMessage>::handle: both requests are sent at once
CtlRefresh ==
    /\ Running
    /\ ctl_notify # <<>>
    /\ Head(ctl_notify) = "RefreshStonesMessage"
    /\ ctl_notify' = Tail(ctl_notify)
    /\ mailbox' = mailbox \o <<ListStonesMessage(White, issued + 1),
                               ListStonesMessage(Black, issued + 2)>>
    /\ issued' = issued + 2
    /\ ctl_futs' = ctl_futs \cup {Fut("refresh", "", 0, issued + 1, issued + 2)}
    /\ UNCHANGED <<fn_vars, gg_vars, store_env, last_refresh, gtp_starts, main_pc, main_resp, crash, handling, wire, answered, stdout,
                   pos, results, listed, faults, ctl_mailbox, tbl_vars, rdr_pc,
                   keys>>

\* a refresh closure that writes each colour whose own list_stones succeeded
CtlRefreshDone_Partial ==
    /\ Running
    /\ \E f \in ctl_futs :
         /\ f.kind = "refresh"
         /\ f.wres # <<>>
         /\ f.bres # <<>>
         /\ tbl_mailbox' =
              tbl_mailbox
              \o (IF f.wres[1].ok THEN <<SetWhiteStonesMessage(f.wres[1].stones)>>
                  ELSE <<>>)
              \o (IF f.bres[1].ok THEN <<SetBlackStonesMessage(f.bres[1].stones)>>
                  ELSE <<>>)
         /\ last_refresh' = IF f.wres[1].ok /\ f.bres[1].ok THEN "Ok" ELSE "Err"
         /\ ctl_futs' = ctl_futs \ {f}
    /\ UNCHANGED <<fn_vars, gg_vars, store_env, main_pc, main_resp, crash, engine_vars, ctl_mailbox, ctl_notify,
                   tbl_seq, board_size, refresh_ui_request, rows, unrendered, recomputes, next_move_input, highlight_coords,
                   white_stones, black_stones, rdr_pc, keys>>

\* a refresh closure that hands each list to the store under the other
\* colour's message
CtlRefreshDone_Crossed ==
    /\ Running
    /\ \E f \in ctl_futs :
         /\ f.kind = "refresh"
         /\ f.wres # <<>>
         /\ f.bres # <<>>
         /\ tbl_mailbox' =
              IF f.wres[1].ok /\ f.bres[1].ok
              THEN tbl_mailbox \o <<SetWhiteStonesMessage(f.bres[1].stones),
                                    SetBlackStonesMessage(f.wres[1].stones)>>
              ELSE tbl_mailbox
         /\ last_refresh' = IF f.wres[1].ok /\ f.bres[1].ok THEN "Ok" ELSE "Err"
         /\ ctl_futs' = ctl_futs \ {f}
    /\ UNCHANGED <<fn_vars, gg_vars, store_env, main_pc, main_resp, crash, engine_vars, ctl_mailbox, ctl_notify,
                   tbl_seq, board_size, refresh_ui_request, rows, unrendered, recomputes, next_move_input, highlight_coords,
                   white_stones, black_stones, rdr_pc, keys>>

\* the closure of RefreshStonesMessage, once both replies are there: both
\* Ok writes both colours, anything else writes nothing
CtlRefreshDone ==
    /\ Running
    /\ \E f \in ctl_futs :
         /\ f.kind = "refresh"
         /\ f.wres # <<>>
         /\ f.bres # <<>>
         /\ tbl_mailbox' =
              IF f.wres[1].ok /\ f.bres[1].ok
              THEN tbl_mailbox \o <<SetWhiteStonesMessage(f.wres[1].stones),
                                    SetBlackStonesMessage(f.bres[1].stones)>>
              ELSE tbl_mailbox
         /\ last_refresh' = IF f.wres[1].ok /\ f.bres[1].ok THEN "Ok" ELSE "Err"
         /\ ctl_futs' = ctl_futs \ {f}
    /\ UNCHANGED <<fn_vars, gg_vars, store_env, main_pc, main_resp, crash, engine_vars, ctl_mailbox, ctl_notify,
                   tbl_seq, board_size, refresh_ui_request, rows, unrendered, recomputes, next_move_input, highlight_coords,
                   white_stones, black_stones, rdr_pc, keys>>

\* Handler<UpdateHightlightCoordsMessage>::handle
CtlUpdate ==
    /\ Running
    /\ ctl_notify # <<>>
    /\ Head(ctl_notify) = "UpdateHightlightCoordsMessage"
    /\ ctl_notify' = Tail(ctl_notify)
    /\ tbl_mailbox' = Append(tbl_mailbox, GetNextMoveInput(tbl_seq + 1))
    /\ tbl_seq' = tbl_seq + 1
    /\ ctl_futs' = ctl_futs \cup {Fut("upd", "", tbl_seq + 1, 0, 0)}
    /\ UNCHANGED <<fn_vars, gg_vars, store_env, last_refresh, main_pc, main_resp, crash, engine_vars, ctl_mailbox, board_size, refresh_ui_request, rows, unrendered, recomputes,
                   next_move_input, highlight_coords, white_stones, black_stones,
                   rdr_pc, keys>>

\* the closure of UpdateHightlightCoordsMessage
CtlUpdateDone ==
    /\ Running
    /\ \E f \in ctl_futs :
         /\ f.kind = "upd"
         /\ f.resp # <<>>
         /\ tbl_mailbox' = Append(tbl_mailbox,
                SetHightlightCoordsMessage(parse_input_coords(f.resp[1].inp)))
         /\ ctl_futs' = ctl_futs \ {f}
    /\ UNCHANGED <<fn_vars, gg_vars, store_env, last_refresh, main_pc, main_resp, crash, engine_vars, ctl_mailbox, ctl_notify,
                   tbl_seq, board_size, refresh_ui_request, rows, unrendered, recomputes, next_move_input, highlight_coords,
                   white_stones, black_stones, rdr_pc, keys>>

(***************************************************************************)
(* render_app (src/view/tui/renderer.rs): the event loop.                  *)
(***************************************************************************)
\* the keys the terminal delivers
Keys == {"A", "1", "Backspace", "Enter", "q", "Tick"}

\* events.next(), then board_controller_addr.send(OnEventMessage) and wait
RenderEvent ==
    /\ Running
    /\ rdr_pc = "ready"
    /\ keys < MaxKeys
    /\ \E key \in Keys : ctl_mailbox' = Append(ctl_mailbox, OnEventMessage(key))
    /\ keys' = keys + 1
    /\ rdr_pc' = "waiting"
    /\ UNCHANGED <<fn_vars, gg_vars, store_env, last_refresh, main_pc, main_resp, crash, engine_vars, ctl_notify, ctl_futs,
                   tbl_vars>>

(***************************************************************************)
(* The actor coordinator.                                                  *)
(***************************************************************************)
Init ==
    /\ fn_call = NoCall
    /\ fn_ret = <<>>
    /\ main_pc = "start"
    /\ main_resp = <<>>
    /\ crash = "none"
    /\ mailbox = <<>>
    /\ issued = 0
    /\ handling = <<>>
    /\ wire = <<>>
    /\ answered = 0
    /\ stdout = <<>>
    /\ pos = EmptyPosition
    /\ results = <<>>
    /\ listed = [color \in StoneColor |-> {}]
    /\ faults = 0
    /\ gtp_starts = 1
    /\ ctl_mailbox = <<>>
    /\ ctl_notify = <<>>
    /\ ctl_futs = {}
    /\ last_refresh = "none"
    /\ tbl_mailbox = <<>>
    /\ tbl_seq = 0
    /\ board_size = 0
    /\ next_move_input = <<>>
    /\ highlight_coords = OptCoordsDefault
    /\ white_stones = <<>>
    /\ black_stones = <<>>
    /\ refresh_ui_request = FALSE
    /\ rows = <<>>
    /\ unrendered = {}
    /\ recomputes = 0
    /\ drawn = <<>>
    /\ refreshes = 0
    /\ refresh_pc = "idle"
    /\ sets = 0
    /\ rdr_pc = "off"
    /\ keys = 0
    /\ board = <<>>
    /\ gg_input = <<>>
    /\ gtp_status = "Idle"
    /\ gtp_error = <<>>
    /\ should_exit = None
    /\ gg_tasks = {}
    /\ gg_msgs = <<>>
    /\ gg_panic = FALSE
    /\ gg_accepted = <<>>
    /\ gg_fetched = [black |-> <<>>, white |-> <<>>]
    /\ gg_failed = <<>>
    /\ gg_ignored = {}

Next ==
    \/ MainQueryBoardSize
    \/ MainBoardSize
    \/ EngineSend
    \/ EngineReply
    \/ EngineTimeout
    \/ ProcReply
    \/ TblGet
    \/ TblSet
    \/ CtlOnStonesChange
    \/ CtlOnEventReply
    \/ CtlOnEventInput
    \/ CtlOnEventEnter
    \/ CtlKeyDone
    \/ CtlEnterDone
    \/ CtlEnterPanic
    \/ CtlRefresh
    \/ CtlRefreshDone
    \/ CtlUpdate
    \/ CtlUpdateDone
    \/ RenderEvent

vars == <<actor_vars, store_env, gg_vars, fn_vars>>

Spec == Init /\ [][Next]_vars

(***************************************************************************)
(* The actor coordinator after the keys A, 1 and Backspace, from the       *)
(* moment the closure of Backspace has replied to render_app: everything   *)
(* the keys A and 1 triggered has been processed (the store holds the      *)
(* input "A1" and the highlight A1), the SetNextMoveInput("A") of          *)
(* Backspace is in the store's mailbox and its                             *)
(* UpdateHightlightCoordsMessage is notified and not handled yet.          *)
(***************************************************************************)
\* key events the terminal delivers after the keys A, 1 and Backspace
MaxTypedKeys == 1

\* the state in which the closure of Backspace, after A and 1, has replied
TypedA1Backspace ==
    /\ main_pc = "running"
    /\ main_resp = <<QueryBoardSizeResult(Answer(TRUE, <<Num(EngineBoardSize)>>, EmptyPosition))>>
    /\ crash = "none"
    /\ mailbox = <<>>
    /\ issued = 1
    /\ handling = <<>>
    /\ wire = <<CommandOf(QueryBoardSizeMessage(1))>>
    /\ answered = 1
    /\ stdout = <<>>
    /\ pos = EmptyPosition
    /\ results = <<Outcome("reply", 1, TRUE, TRUE, FALSE)>>
    /\ listed = [color \in StoneColor |-> {}]
    /\ faults = 0
    /\ gtp_starts = 1
    /\ ctl_mailbox = <<>>
    /\ ctl_notify = <<"UpdateHightlightCoordsMessage">>
    /\ ctl_futs = {}
    /\ last_refresh = "none"
    /\ tbl_mailbox = <<SetNextMoveInput(<<"A">>)>>
    /\ tbl_seq = 5
    /\ board_size = EngineBoardSize
    /\ next_move_input = <<"A", "1">>
    /\ highlight_coords = OptCoords(1, 1)
    /\ white_stones = <<>>
    /\ black_stones = <<>>
    /\ refresh_ui_request = TRUE
    /\ rows = refresh_ui_rows(EngineBoardSize, <<>>, <<>>, OptCoordsDefault,
                              make_star_points(EngineBoardSize))
    /\ unrendered = {"SetNextMoveInput", "SetHightlightCoordsMessage"}
    /\ recomputes = 1
    /\ rdr_pc = "ready"

InitTyped ==
    /\ TypedA1Backspace
    /\ keys = MaxKeys - MaxTypedKeys
    /\ fn_call = NoCall
    /\ fn_ret = <<>>
    /\ drawn = <<>>
    /\ refreshes = 0
    /\ refresh_pc = "idle"
    /\ sets = 0
    /\ board = <<>>
    /\ gg_input = <<>>
    /\ gtp_status = "Idle"
    /\ gtp_error = <<>>
    /\ should_exit = None
    /\ gg_tasks = {}
    /\ gg_msgs = <<>>
    /\ gg_panic = FALSE
    /\ gg_accepted = <<>>
    /\ gg_fetched = [black |-> <<>>, white |-> <<>>]
    /\ gg_failed = <<>>
    /\ gg_ignored = {}

NextTyped ==
    \/ EngineSend
    \/ EngineReply
    \/ EngineTimeout
    \/ ProcReply
    \/ TblGet
    \/ TblSet
    \/ CtlOnStonesChange
    \/ CtlOnEventReply
    \/ CtlOnEventInput
    \/ CtlOnEventEnter
    \/ CtlKeyDone
    \/ CtlEnterDone
    \/ CtlEnterPanic
    \/ CtlRefresh
    \/ CtlRefreshDone
    \/ CtlUpdate
    \/ CtlUpdateDone
    \/ RenderEvent

SpecTyped == InitTyped /\ [][NextTyped]_vars

(***************************************************************************)
(* GoGame (src/gogame/gogame.rs, src/gogame/board.rs): the iced            *)
(* application.  update() runs on the UI thread; Command::perform runs     *)
(* load_board, play_move and gen_next_move as tasks of the executor and    *)
(* gives their result back to update() as a GameMessage.                   *)
(***************************************************************************)
\* what the actor coordinator alone uses
actor_only == <<main_pc, main_resp, crash, mailbox, issued, handling, answered,
                stdout, results, listed, gtp_starts, ctl_vars, tbl_vars, store_env,
                rdr_pc>>

\* Board::new
Board(size) ==
    [board_size |-> size, white_stones |-> <<>>, black_stones |-> <<>>,
     highlight_coords |-> OptCoordsDefault]

\* Board::set_stones
set_stones(b, black, white) ==
    [b EXCEPT !.black_stones = black, !.white_stones = white]

\* Board::highlight_coords
set_highlight_coords(b, coords) == [b EXCEPT !.highlight_coords = coords]

\* a check that accepts a highlighted column without a row
valid_highlight_ColOnly(b) == b.highlight_coords.col # None

\* Board::get_valid_highlight_coords: Some only with a row and a col
valid_highlight(b) ==
    b.highlight_coords.row # None /\ b.highlight_coords.col # None

\* GoGame::refresh_highlight_coords
refresh_highlight_coords(bd, input) ==
    IF bd # <<>> THEN <<set_highlight_coords(bd[1], parse_input_coords(input))>>
    ELSE bd

\* a task: pc 1 is its first engine call, 2 list_stones(Black),
\* 3 list_stones(White)
Task(name, pc, color, coords, black) ==
    [name |-> name, pc |-> pc, color |-> color, coords |-> coords,
     black |-> black]

GameMessage(kind, black, white, size, message) ==
    [kind |-> kind, black |-> black, white |-> white, size |-> size,
     message |-> message]
BoardLoaded(size) == GameMessage("BoardLoaded", <<>>, <<>>, size, "")
AfterStonePlayed(black, white) == GameMessage("AfterStonePlayed", black, white, 0, "")
AfterGenMove(black, white) == GameMessage("AfterGenMove", black, white, 0, "")
GtpError(message) == GameMessage("GtpError", <<>>, <<>>, 0, message)

\* a blocking call of the engine client (query_board_size, play,
\* list_stones, gen_move): the command is written once and the call returns
\* the decoded reply, or an error after a failure reply, an undecodable
\* reply or a timeout
EngineCall(msg, p, budget) ==
    {[res |-> HandleResponse(msg, [ok |-> a.ok, text |-> a.text, for |-> 0]),
      pos |-> a.pos, fault |-> 0] : a \in ProtocolAnswers(CommandOf(msg), p)}
    \cup
    (IF budget > 0
     THEN {[res |-> HandleResponse(msg, [ok |-> a.ok, text |-> a.text, for |-> 0]),
            pos |-> a.pos, fault |-> 1] : a \in FaultAnswers(CommandOf(msg), p)}
          \cup {[res |-> Err, pos |-> a.pos, fault |-> 1] :
                   a \in ProtocolAnswers(CommandOf(msg), p)}
     ELSE {})

\* the bookkeeping of one call
Called(msg, o) ==
    /\ wire' = Append(wire, CommandOf(msg))
    /\ pos' = o.pos
    /\ faults' = faults + o.fault

GGRunning == should_exit = None

\* load_board: query_board_size().unwrap(), then Board::new
GGLoadBoard ==
    /\ GGRunning
    /\ \E t \in gg_tasks :
         /\ t.name = "load_board"
         /\ LET msg == QueryBoardSizeMessage(Len(wire) + 1)
            IN  \E o \in EngineCall(msg, pos, MaxFaults - faults) :
                  /\ Called(msg, o)
                  /\ gg_msgs' = IF o.res.ok THEN Append(gg_msgs, BoardLoaded(o.res.size))
                                ELSE gg_msgs
                  /\ gg_panic' = (gg_panic \/ ~o.res.ok)
         /\ gg_tasks' = gg_tasks \ {t}
    /\ UNCHANGED <<fn_vars, actor_only, gg_ignored, keys, board, gg_input, gtp_status, gtp_error,
                   should_exit, gg_accepted, gg_fetched, gg_failed>>

\* play_move: gtp_engine.play(color, coords)?
GGPlay ==
    /\ GGRunning
    /\ \E t \in gg_tasks :
         /\ t.name = "play_move"
         /\ t.pc = 1
         /\ LET msg == PlayMessage(t.color, t.coords, Len(wire) + 1)
            IN  \E o \in EngineCall(msg, pos, MaxFaults - faults) :
                  /\ Called(msg, o)
                  /\ IF o.res.ok
                     THEN /\ gg_tasks' = (gg_tasks \ {t}) \cup {[t EXCEPT !.pc = 2]}
                          /\ UNCHANGED <<gg_msgs, gg_failed>>
                     ELSE /\ gg_tasks' = gg_tasks \ {t}
                          /\ gg_msgs' = Append(gg_msgs, GtpError("play"))
                          /\ gg_failed' = <<"play">>
    /\ UNCHANGED <<fn_vars, actor_only, gg_ignored, keys, board, gg_input, gtp_status, gtp_error,
                   should_exit, gg_panic, gg_accepted, gg_fetched>>

\* gen_next_move: gtp_engine.gen_move(player_color.inverse())?
GGGenMove ==
    /\ GGRunning
    /\ \E t \in gg_tasks :
         /\ t.name = "gen_next_move"
         /\ t.pc = 1
         /\ LET msg == GenMoveMessage(inverse(t.color), Len(wire) + 1)
            IN  \E o \in EngineCall(msg, pos, MaxFaults - faults) :
                  /\ Called(msg, o)
                  /\ IF o.res.ok
                     THEN /\ gg_tasks' = (gg_tasks \ {t}) \cup {[t EXCEPT !.pc = 2]}
                          /\ UNCHANGED <<gg_msgs, gg_failed>>
                     ELSE /\ gg_tasks' = gg_tasks \ {t}
                          /\ gg_msgs' = Append(gg_msgs, GtpError("genmove"))
                          /\ gg_failed' = <<"genmove">>
    /\ UNCHANGED <<fn_vars, actor_only, gg_ignored, keys, board, gg_input, gtp_status, gtp_error,
                   should_exit, gg_panic, gg_accepted, gg_fetched>>

\* play_move, gen_next_move: gtp_engine.list_stones(StoneColor::Black)?
GGListBlack ==
    /\ GGRunning
    /\ \E t \in gg_tasks :
         /\ t.pc = 2
         /\ LET msg == ListStonesMessage(Black, Len(wire) + 1)
            IN  \E o \in EngineCall(msg, pos, MaxFaults - faults) :
                  /\ Called(msg, o)
                  /\ IF o.res.ok
                     THEN /\ gg_tasks' = (gg_tasks \ {t}) \cup
                               {[t EXCEPT !.pc = 3, !.black = o.res.stones]}
                          /\ UNCHANGED <<gg_msgs, gg_failed>>
                     ELSE /\ gg_tasks' = gg_tasks \ {t}
                          /\ gg_msgs' = Append(gg_msgs, GtpError("list_stones b"))
                          /\ gg_failed' = <<"list_stones b">>
    /\ UNCHANGED <<fn_vars, actor_only, gg_ignored, keys, board, gg_input, gtp_status, gtp_error,
                   should_exit, gg_panic, gg_accepted, gg_fetched>>

\* play_move, gen_next_move: gtp_engine.list_stones(StoneColor::White)?,
\* then Ok((black_stones, white_stones)), which Command::perform turns into
\* AfterStonePlayed or AfterGenMove
GGListWhite ==
    /\ GGRunning
    /\ \E t \in gg_tasks :
         /\ t.pc = 3
         /\ LET msg == ListStonesMessage(White, Len(wire) + 1)
            IN  \E o \in EngineCall(msg, pos, MaxFaults - faults) :
                  /\ Called(msg, o)
                  /\ IF o.res.ok
                     THEN /\ gg_msgs' = Append(gg_msgs,
                                 IF t.name = "play_move"
                                 THEN AfterStonePlayed(t.black, o.res.stones)
                                 ELSE AfterGenMove(t.black, o.res.stones))
                          /\ gg_fetched' = [black |-> t.black, white |-> o.res.stones]
                          /\ UNCHANGED gg_failed
                     ELSE /\ gg_msgs' = Append(gg_msgs, GtpError("list_stones w"))
                          /\ gg_failed' = <<"list_stones w">>
                          /\ UNCHANGED gg_fetched
         /\ gg_tasks' = gg_tasks \ {t}
    /\ UNCHANGED <<fn_vars, actor_only, gg_ignored, keys, board, gg_input, gtp_status, gtp_error,
                   should_exit, gg_panic, gg_accepted>>

\* update(BoardLoaded(board))
GGBoardLoaded ==
    /\ GGRunning
    /\ gg_msgs # <<>>
    /\ Head(gg_msgs).kind = "BoardLoaded"
    /\ board' = <<Board(Head(gg_msgs).size)>>
    /\ gg_msgs' = Tail(gg_msgs)
    /\ UNCHANGED <<fn_vars, actor_only, gg_ignored, wire, pos, faults, keys, gg_input, gtp_status,
                   gtp_error, should_exit, gg_tasks, gg_panic, gg_accepted,
                   gg_fetched, gg_failed>>

\* an update(AfterStonePlayed) that starts gen_next_move without storing
\* the stones
GGAfterStonePlayed_NoStore ==
    /\ GGRunning
    /\ gg_msgs # <<>>
    /\ Head(gg_msgs).kind = "AfterStonePlayed"
    /\ gg_tasks' = gg_tasks \cup
         {Task("gen_next_move", 1, player_color, Coords(0, 0), <<>>)}
    /\ gg_msgs' = Tail(gg_msgs)
    /\ UNCHANGED <<fn_vars, actor_only, gg_ignored, wire, pos, faults, keys, board, gg_input,
                   gtp_status, gtp_error, should_exit, gg_panic, gg_accepted,
                   gg_fetched, gg_failed>>

\* update(AfterStonePlayed(black_stones, white_stones)): set_stones, then
\* Command::perform(gen_next_move)
GGAfterStonePlayed ==
    /\ GGRunning
    /\ gg_msgs # <<>>
    /\ Head(gg_msgs).kind = "AfterStonePlayed"
    /\ board' = IF board # <<>>
                THEN <<set_stones(board[1], Head(gg_msgs).black, Head(gg_msgs).white)>>
                ELSE board
    /\ gg_tasks' = gg_tasks \cup
         {Task("gen_next_move", 1, player_color, Coords(0, 0), <<>>)}
    /\ gg_msgs' = Tail(gg_msgs)
    /\ UNCHANGED <<fn_vars, actor_only, gg_ignored, wire, pos, faults, keys, gg_input, gtp_status,
                   gtp_error, should_exit, gg_panic, gg_accepted, gg_fetched,
                   gg_failed>>

\* an update(AfterGenMove) that stores the stones and leaves gtp_status alone
GGAfterGenMove_KeepStatus ==
    /\ GGRunning
    /\ gg_msgs # <<>>
    /\ Head(gg_msgs).kind = "AfterGenMove"
    /\ board' = IF board # <<>>
                THEN <<set_stones(board[1], Head(gg_msgs).black, Head(gg_msgs).white)>>
                ELSE board
    /\ gg_msgs' = Tail(gg_msgs)
    /\ UNCHANGED <<fn_vars, actor_only, gg_ignored, wire, pos, faults, keys, gg_input, gtp_error,
                   should_exit, gg_tasks, gg_panic, gg_accepted, gg_fetched,
                   gg_failed, gtp_status>>

\* update(AfterGenMove(black_stones, white_stones)): set_stones, then Idle
GGAfterGenMove ==
    /\ GGRunning
    /\ gg_msgs # <<>>
    /\ Head(gg_msgs).kind = "AfterGenMove"
    /\ board' = IF board # <<>>
                THEN <<set_stones(board[1], Head(gg_msgs).black, Head(gg_msgs).white)>>
                ELSE board
    /\ gtp_status' = "Idle"
    /\ gg_msgs' = Tail(gg_msgs)
    /\ UNCHANGED <<fn_vars, actor_only, gg_ignored, wire, pos, faults, keys, gg_input, gtp_error,
                   should_exit, gg_tasks, gg_panic, gg_accepted, gg_fetched,
                   gg_failed>>

\* an update(GtpError(message)) that stores the message and goes back to
\* Idle
GGGtpError_Recover ==
    /\ GGRunning
    /\ gg_msgs # <<>>
    /\ Head(gg_msgs).kind = "GtpError"
    /\ gtp_error' = <<Head(gg_msgs).message>>
    /\ gtp_status' = "Idle"
    /\ gg_msgs' = Tail(gg_msgs)
    /\ UNCHANGED <<fn_vars, actor_only, gg_ignored, wire, pos, faults, keys, board, gg_input,
                   should_exit, gg_tasks, gg_panic, gg_accepted, gg_fetched,
                   gg_failed>>

\* an update(GtpError(message)) that also clears the stones of the board
GGGtpError_Revert ==
    /\ GGRunning
    /\ gg_msgs # <<>>
    /\ Head(gg_msgs).kind = "GtpError"
    /\ gtp_error' = <<Head(gg_msgs).message>>
    /\ gtp_status' = "Error"
    /\ board' = IF board # <<>> THEN <<set_stones(board[1], <<>>, <<>>)>> ELSE board
    /\ gg_msgs' = Tail(gg_msgs)
    /\ UNCHANGED <<fn_vars, actor_only, gg_ignored, wire, pos, faults, keys, gg_input,
                   should_exit, gg_tasks, gg_panic, gg_accepted, gg_fetched,
                   gg_failed>>

\* update(GtpError(message))
GGGtpError ==
    /\ GGRunning
    /\ gg_msgs # <<>>
    /\ Head(gg_msgs).kind = "GtpError"
    /\ gtp_error' = <<Head(gg_msgs).message>>
    /\ gtp_status' = "Error"
    /\ gg_msgs' = Tail(gg_msgs)
    /\ UNCHANGED <<fn_vars, actor_only, gg_ignored, wire, pos, faults, keys, board, gg_input,
                   should_exit, gg_tasks, gg_panic, gg_accepted, gg_fetched,
                   gg_failed>>

\* the characters and key codes the terminal delivers to GoGame
GGChars == {"A", "1", "0"}

\* update(EventOccurred(KeyReleased { C, control })): exit with status 1
GGCtrlC ==
    /\ GGRunning
    /\ keys < MaxEvents
    /\ keys' = keys + 1
    /\ should_exit' = 1
    /\ UNCHANGED <<fn_vars, actor_only, gg_ignored, wire, pos, faults, board, gg_input, gtp_status,
                   gtp_error, gg_tasks, gg_msgs, gg_panic, gg_accepted,
                   gg_fetched, gg_failed>>

\* update(EventOccurred(KeyReleased { Backspace }))
GGBackspace ==
    /\ GGRunning
    /\ keys < MaxEvents
    /\ keys' = keys + 1
    /\ IF gtp_status = "Idle" /\ gg_input # <<>>
       THEN /\ gg_input' = SubSeq(gg_input, 1, Len(gg_input) - 1)
            /\ board' = refresh_highlight_coords(board, gg_input')
       ELSE UNCHANGED <<gg_input, board>>
    /\ gg_ignored' = IF gtp_status = "Idle" THEN gg_ignored
                     ELSE gg_ignored \cup {gtp_status}
    /\ UNCHANGED <<fn_vars, actor_only, wire, pos, faults, gtp_status, gtp_error,
                   should_exit, gg_tasks, gg_msgs, gg_panic, gg_accepted,
                   gg_fetched, gg_failed>>

\* update(EventOccurred(KeyReleased { Enter })): with a board, in Idle and
\* with a valid highlight, Loading, the input cleared, the highlight
\* refreshed and Command::perform(play_move); otherwise nothing
GGEnter ==
    /\ GGRunning
    /\ keys < MaxEvents
    /\ keys' = keys + 1
    /\ IF gtp_status = "Idle" /\ board # <<>> /\ valid_highlight(board[1])
       THEN /\ gtp_status' = "Loading"
            /\ gg_input' = <<>>
            /\ board' = refresh_highlight_coords(board, <<>>)
            /\ gg_tasks' = gg_tasks \cup
                 {Task("play_move", 1, player_color,
                       Coords(board[1].highlight_coords.row,
                              board[1].highlight_coords.col), <<>>)}
            /\ gg_accepted' = Append(gg_accepted,
                   Coords(board[1].highlight_coords.row,
                          board[1].highlight_coords.col))
       ELSE UNCHANGED <<gtp_status, gg_input, board, gg_tasks, gg_accepted>>
    /\ gg_ignored' = IF gtp_status = "Idle" THEN gg_ignored
                     ELSE gg_ignored \cup {gtp_status}
    /\ UNCHANGED <<fn_vars, actor_only, wire, pos, faults, gtp_error, should_exit,
                   gg_msgs, gg_panic, gg_fetched, gg_failed>>

\* the pending input after CharacterReceived(c) in Idle: a letter goes into
\* an empty input, a digit into a non-empty input shorter than 3
GGInputAfterChar(c, input) ==
    LET after_letter == IF c \in char_range /\ input = <<>>
                        THEN Append(input, c) ELSE input
    IN  IF c \in number_range /\ after_letter # <<>> /\ Len(after_letter) < 3
        THEN Append(after_letter, c) ELSE after_letter

\* an update(CharacterReceived(c)) that edits the input whatever gtp_status
GGCharacterReceived_AnyStatus ==
    /\ GGRunning
    /\ keys < MaxEvents
    /\ keys' = keys + 1
    /\ \E c \in GGChars :
         IF GGInputAfterChar(c, gg_input) # gg_input
         THEN /\ gg_input' = GGInputAfterChar(c, gg_input)
              /\ board' = refresh_highlight_coords(board, gg_input')
         ELSE UNCHANGED <<gg_input, board>>
    /\ gg_ignored' = IF gtp_status = "Idle" THEN gg_ignored
                     ELSE gg_ignored \cup {gtp_status}
    /\ UNCHANGED <<fn_vars, actor_only, wire, pos, faults, gtp_status, gtp_error,
                   should_exit, gg_tasks, gg_msgs, gg_panic, gg_accepted,
                   gg_fetched, gg_failed>>

\* update(EventOccurred(CharacterReceived(c)))
GGCharacterReceived ==
    /\ GGRunning
    /\ keys < MaxEvents
    /\ keys' = keys + 1
    /\ \E c \in GGChars :
         IF gtp_status = "Idle" /\ GGInputAfterChar(c, gg_input) # gg_input
         THEN /\ gg_input' = GGInputAfterChar(c, gg_input)
              /\ board' = refresh_highlight_coords(board, gg_input')
         ELSE UNCHANGED <<gg_input, board>>
    /\ gg_ignored' = IF gtp_status = "Idle" THEN gg_ignored
                     ELSE gg_ignored \cup {gtp_status}
    /\ UNCHANGED <<fn_vars, actor_only, wire, pos, faults, gtp_status, gtp_error,
                   should_exit, gg_tasks, gg_msgs, gg_panic, gg_accepted,
                   gg_fetched, gg_failed>>

\* GoGame::new: the fields, and Command::perform(load_board)
InitGoGame ==
    /\ fn_call = NoCall
    /\ fn_ret = <<>>
    /\ main_pc = "start"
    /\ main_resp = <<>>
    /\ crash = "none"
    /\ mailbox = <<>>
    /\ issued = 0
    /\ handling = <<>>
    /\ wire = <<>>
    /\ answered = 0
    /\ stdout = <<>>
    /\ pos = EmptyPosition
    /\ results = <<>>
    /\ listed = [color \in StoneColor |-> {}]
    /\ faults = 0
    /\ gtp_starts = 1
    /\ ctl_mailbox = <<>>
    /\ ctl_notify = <<>>
    /\ ctl_futs = {}
    /\ last_refresh = "none"
    /\ tbl_mailbox = <<>>
    /\ tbl_seq = 0
    /\ board_size = 0
    /\ next_move_input = <<>>
    /\ highlight_coords = OptCoordsDefault
    /\ white_stones = <<>>
    /\ black_stones = <<>>
    /\ refresh_ui_request = FALSE
    /\ rows = <<>>
    /\ unrendered = {}
    /\ recomputes = 0
    /\ drawn = <<>>
    /\ refreshes = 0
    /\ refresh_pc = "idle"
    /\ sets = 0
    /\ rdr_pc = "off"
    /\ keys = 0
    /\ board = <<>>
    /\ gg_input = <<>>
    /\ gtp_status = "Idle"
    /\ gtp_error = <<>>
    /\ should_exit = None
    /\ gg_tasks = {Task("load_board", 1, NoColor, Coords(0, 0), <<>>)}
    /\ gg_msgs = <<>>
    /\ gg_panic = FALSE
    /\ gg_accepted = <<>>
    /\ gg_fetched = [black |-> <<>>, white |-> <<>>]
    /\ gg_failed = <<>>
    /\ gg_ignored = {}

NextGoGame ==
    \/ GGLoadBoard
    \/ GGPlay
    \/ GGGenMove
    \/ GGListBlack
    \/ GGListWhite
    \/ GGBoardLoaded
    \/ GGAfterStonePlayed
    \/ GGAfterGenMove
    \/ GGGtpError
    \/ GGCtrlC
    \/ GGBackspace
    \/ GGEnter
    \/ GGCharacterReceived

SpecGoGame == InitGoGame /\ [][NextGoGame]_vars

\* what the iced runtime does on its own: it runs each future handed to
\* Command::perform to its end (every engine call in it returns a reply or
\* an error) and delivers the resulting message to update
GGRuntime ==
    \/ GGLoadBoard
    \/ GGPlay
    \/ GGGenMove
    \/ GGListBlack
    \/ GGListWhite
    \/ GGBoardLoaded
    \/ GGAfterStonePlayed
    \/ GGAfterGenMove
    \/ GGGtpError

\* GoGame under a runtime that keeps running commands and delivering their
\* messages; the keyboard may stay silent
SpecGoGameFair == SpecGoGame /\ WF_vars(GGRuntime)

(***************************************************************************)
(* The store on its own: BoardTableActor after BoardTableActor::new, with  *)
(* the two threads that send to it.  BoardControllerActor's futures        *)
(* do_send the Set messages: a key event writes the input and then the     *)
(* highlight parsed from it, a stone refresh writes the white list and     *)
(* then the black list.  The render loop, on the main thread, asks for the *)
(* rows before every event and blocks on the reply.                        *)
(***************************************************************************)
\* stone refreshes that reach the store in one run
MaxRefreshes == 2
\* input and highlight writes that reach the store in one run
MaxStoreSets == 2
\* frames the render loop draws in one run
MaxDraws == 3

\* the pending inputs the key events leave
StoreInputs == {<<"A">>, <<"B", "2">>}

\* the list of one colour the n-th refresh got from list_stones: the game
\* went on between two refreshes, each colour has one stone more
RefreshStones(n, color) ==
    [k \in 1..n |-> Stone(color, k, IF color = White THEN 1 ELSE 2)]

\* self.board_table_addr.do_send(SetNextMoveInput { text })
CtlSendInput ==
    /\ sets < MaxStoreSets
    /\ \E text \in StoreInputs :
          tbl_mailbox' = Append(tbl_mailbox, SetNextMoveInput(text))
    /\ sets' = sets + 1
    /\ UNCHANGED <<fn_vars, gg_vars, main_pc, main_resp, crash, engine_vars, ctl_vars,
                   tbl_seq, board_size, next_move_input, highlight_coords,
                   white_stones, black_stones, refresh_ui_request, rows,
                   unrendered, recomputes, drawn, refreshes, refresh_pc,
                   rdr_pc, keys>>

\* do_send(SetHightlightCoordsMessage { coords: parse_input_coords(..) })
CtlSendHighlight ==
    /\ sets < MaxStoreSets
    /\ \E text \in StoreInputs :
          tbl_mailbox' = Append(tbl_mailbox,
                                SetHightlightCoordsMessage(parse_input_coords(text)))
    /\ sets' = sets + 1
    /\ UNCHANGED <<fn_vars, gg_vars, main_pc, main_resp, crash, engine_vars, ctl_vars,
                   tbl_seq, board_size, next_move_input, highlight_coords,
                   white_stones, black_stones, refresh_ui_request, rows,
                   unrendered, recomputes, drawn, refreshes, refresh_pc,
                   rdr_pc, keys>>

\* the refresh closure's first do_send: SetWhiteStonesMessage
CtlSendWhiteStones ==
    /\ refresh_pc = "idle"
    /\ refreshes < MaxRefreshes
    /\ tbl_mailbox' = Append(tbl_mailbox,
                             SetWhiteStonesMessage(RefreshStones(refreshes + 1, White)))
    /\ refreshes' = refreshes + 1
    /\ refresh_pc' = "white_sent"
    /\ UNCHANGED <<fn_vars, gg_vars, main_pc, main_resp, crash, engine_vars, ctl_vars,
                   tbl_seq, board_size, next_move_input, highlight_coords,
                   white_stones, black_stones, refresh_ui_request, rows,
                   unrendered, recomputes, drawn, sets, rdr_pc, keys>>

\* the refresh closure's second do_send: SetBlackStonesMessage
CtlSendBlackStones ==
    /\ refresh_pc = "white_sent"
    /\ tbl_mailbox' = Append(tbl_mailbox,
                             SetBlackStonesMessage(RefreshStones(refreshes, Black)))
    /\ refresh_pc' = "idle"
    /\ UNCHANGED <<fn_vars, gg_vars, main_pc, main_resp, crash, engine_vars, ctl_vars,
                   tbl_seq, board_size, next_move_input, highlight_coords,
                   white_stones, black_stones, refresh_ui_request, rows,
                   unrendered, recomputes, drawn, refreshes, sets, rdr_pc,
                   keys>>

\* terminal.draw: block_on(board_table_addr.send(GetTuiRowsMessage {}))
RenderGetTuiRows ==
    /\ rdr_pc = "ready"
    /\ Len(drawn) < MaxDraws
    /\ tbl_mailbox' = Append(tbl_mailbox, GetTuiRowsMessage)
    /\ rdr_pc' = "drawing"
    /\ UNCHANGED <<fn_vars, gg_vars, main_pc, main_resp, crash, engine_vars, ctl_vars,
                   tbl_seq, board_size, next_move_input, highlight_coords,
                   white_stones, black_stones, refresh_ui_request, rows,
                   unrendered, recomputes, drawn, refreshes, refresh_pc, sets,
                   keys>>

\* BoardTableActor::new(StoreBoardSize), the actors started, nothing sent
InitStore ==
    /\ fn_call = NoCall
    /\ fn_ret = <<>>
    /\ main_pc = "running"
    /\ main_resp = <<>>
    /\ crash = "none"
    /\ mailbox = <<>>
    /\ issued = 0
    /\ handling = <<>>
    /\ wire = <<>>
    /\ answered = 0
    /\ stdout = <<>>
    /\ pos = EmptyPosition
    /\ results = <<>>
    /\ listed = [color \in StoneColor |-> {}]
    /\ faults = 0
    /\ gtp_starts = 1
    /\ ctl_mailbox = <<>>
    /\ ctl_notify = <<>>
    /\ ctl_futs = {}
    /\ last_refresh = "none"
    /\ tbl_mailbox = <<>>
    /\ tbl_seq = 0
    /\ board_size = StoreBoardSize
    /\ next_move_input = <<>>
    /\ highlight_coords = OptCoordsDefault
    /\ white_stones = <<>>
    /\ black_stones = <<>>
    /\ refresh_ui_request = FALSE
    /\ rows = refresh_ui_rows(StoreBoardSize, <<>>, <<>>, OptCoordsDefault,
                              make_star_points(StoreBoardSize))
    /\ unrendered = {}
    /\ recomputes = 1
    /\ drawn = <<>>
    /\ refreshes = 0
    /\ refresh_pc = "idle"
    /\ sets = 0
    /\ rdr_pc = "ready"
    /\ keys = 0
    /\ board = <<>>
    /\ gg_input = <<>>
    /\ gtp_status = "Idle"
    /\ gtp_error = <<>>
    /\ should_exit = None
    /\ gg_tasks = {}
    /\ gg_msgs = <<>>
    /\ gg_panic = FALSE
    /\ gg_accepted = <<>>
    /\ gg_fetched = [black |-> <<>>, white |-> <<>>]
    /\ gg_failed = <<>>
    /\ gg_ignored = {}

NextStore ==
    \/ CtlSendInput
    \/ CtlSendHighlight
    \/ CtlSendWhiteStones
    \/ CtlSendBlackStones
    \/ RenderGetTuiRows
    \/ TblSet
    \/ TblGetTuiRows

SpecStore == InitStore /\ [][NextStore]_vars

(***************************************************************************)
(* The pure functions on their own: one call of a helper, of a layout      *)
(* function, of the input handling or of the decoding of a reply, with its *)
(* argument drawn from a bounded set.                                      *)
(***************************************************************************)
\* board sizes the star points are computed for
MinStarSize == 5
MaxStarSize == 25

Call(fn, arg) == [fn |-> fn, arg |-> arg]

\* the column numbers of the letters of char_range
Columns == 1..Cardinality(char_range)

\* pending inputs and keys of the key closures
KeyInputs == {<<>>, <<"Q">>, <<"Q", "4">>, <<"A", "1", "9">>}
InputKeys == char_range \cup number_range \cup {"Backspace"}

\* replies read from the subprocess: Response::Result or Response::Error
\* with a text of vertices and words
ReplyVertices == {Vtx(<<1, 2>>), Vtx(<<3, 1>>)}
ReplyWords ==
    {Word("junk"), Word("pass"), Word("PASS"), Word("Pass"),
     Word("resign"), Word("RESIGN"), Word("Resign")}
ReplyTexts ==
    {<<>>} \cup {<<t>> : t \in ReplyVertices \cup ReplyWords}
    \cup {<<t, u>> : t, u \in ReplyVertices \cup {Word("junk")}}
Replies == {[ok |-> ok, text |-> text] : ok \in BOOLEAN, text \in ReplyTexts}

\* board sizes, stone lists and highlights the layout is computed for: the
\* stones lie on star points and beside them, one left of the board
\* (col 0) and one right of it
LayoutSizes == StoreBoardSize..MinStarSize
LayoutPoints == {<<3, 3>>, <<3, 4>>, <<2, 2>>, <<3, 0>>, <<3, MinStarSize + 1>>}
LayoutStones(color) == {Stone(color, v[1], v[2]) : v \in LayoutPoints}
StoneLists(color) ==
    {<<>>} \cup {<<s>> : s \in LayoutStones(color)}
    \cup {<<s, t>> : s, t \in LayoutStones(color)}
LayoutHighlights == {OptCoordsDefault, OptCoords(3, 3)}

InitFn ==
    /\ \/ fn_call \in {Call("get_column_name", n) : n \in Columns}
       \/ fn_call \in {Call("get_column_number", c) : c \in char_range}
       \/ fn_call \in {Call("key", [input |-> i, key |-> k]) :
                          i \in KeyInputs, k \in InputKeys}
       \/ fn_call \in {Call("make_star_points", n) : n \in MinStarSize..MaxStarSize}
       \/ fn_call \in {Call("vertex", Coords(r, c)) : r \in Columns, c \in Columns}
       \/ fn_call \in {Call("list_stones", [color |-> c, resp |-> r]) :
                          c \in StoneColor, r \in Replies}
       \/ fn_call \in {Call("genmove", r) : r \in Replies}
       \/ fn_call \in {Call("layout", [size |-> n, white |-> w, black |-> b,
                                        highlight |-> h]) :
                          n \in LayoutSizes, w \in StoneLists(White),
                          b \in StoneLists(Black), h \in LayoutHighlights}
    /\ fn_ret = <<>>
    /\ main_pc = "start"
    /\ main_resp = <<>>
    /\ crash = "none"
    /\ mailbox = <<>>
    /\ issued = 0
    /\ handling = <<>>
    /\ wire = <<>>
    /\ answered = 0
    /\ stdout = <<>>
    /\ pos = EmptyPosition
    /\ results = <<>>
    /\ listed = [color \in StoneColor |-> {}]
    /\ faults = 0
    /\ gtp_starts = 1
    /\ ctl_mailbox = <<>>
    /\ ctl_notify = <<>>
    /\ ctl_futs = {}
    /\ last_refresh = "none"
    /\ tbl_mailbox = <<>>
    /\ tbl_seq = 0
    /\ board_size = 0
    /\ next_move_input = <<>>
    /\ highlight_coords = OptCoordsDefault
    /\ white_stones = <<>>
    /\ black_stones = <<>>
    /\ refresh_ui_request = FALSE
    /\ rows = <<>>
    /\ unrendered = {}
    /\ recomputes = 0
    /\ drawn = <<>>
    /\ refreshes = 0
    /\ refresh_pc = "idle"
    /\ sets = 0
    /\ rdr_pc = "off"
    /\ keys = 0
    /\ board = <<>>
    /\ gg_input = <<>>
    /\ gtp_status = "Idle"
    /\ gtp_error = <<>>
    /\ should_exit = None
    /\ gg_tasks = {}
    /\ gg_msgs = <<>>
    /\ gg_panic = FALSE
    /\ gg_accepted = <<>>
    /\ gg_fetched = [black |-> <<>>, white |-> <<>>]
    /\ gg_failed = <<>>
    /\ gg_ignored = {}

\* get_column_name(col), and get_column_number of the letter it returned
FnGetColumnName ==
    /\ fn_call.fn = "get_column_name"
    /\ fn_ret = <<>>
    /\ LET name == get_column_name(fn_call.arg)
       IN  fn_ret' = <<[name |-> name, number |-> get_column_number(name)]>>
    /\ UNCHANGED <<fn_call, actor_vars, store_env, gg_vars>>

\* get_column_number(col), and get_column_name of the number it returned
FnGetColumnNumber ==
    /\ fn_call.fn = "get_column_number"
    /\ fn_ret = <<>>
    /\ LET number == get_column_number(fn_call.arg)
       IN  fn_ret' = <<[number |-> number, name |-> get_column_name(number)]>>
    /\ UNCHANGED <<fn_call, actor_vars, store_env, gg_vars>>

\* a letter, digit or Backspace closure on the input the store answered
\* with, parse_input_coords of the input it set, and the Coords an Enter
\* makes of that highlight for PlayMessage
FnKey ==
    /\ fn_call.fn = "key"
    /\ fn_ret = <<>>
    /\ LET input == InputAfterKey(fn_call.arg.key, fn_call.arg.input)
           coords == parse_input_coords(input)
       IN  fn_ret' = <<[input |-> input,
                        highlight |-> coords,
                        position |-> IF TryIntoCoordsOk(coords)
                                     THEN <<Coords(coords.row, coords.col)>>
                                     ELSE <<>>]>>
    /\ UNCHANGED <<fn_call, actor_vars, store_env, gg_vars>>

\* BoardTableActor::make_star_points and gen_star_points
FnStarPoints ==
    /\ fn_call.fn = "make_star_points"
    /\ fn_ret = <<>>
    /\ fn_ret' = <<[table |-> make_star_points(fn_call.arg),
                    board |-> gen_star_points(fn_call.arg)]>>
    /\ UNCHANGED <<fn_call, actor_vars, store_env, gg_vars>>

\* Coords::vertex sent with a command, the same vertex in the text of a
\* reply, and success_coords of that reply
FnVertex ==
    /\ fn_call.fn = "vertex"
    /\ fn_ret = <<>>
    /\ LET resp == [ok |-> TRUE, text |-> <<Vtx(vertex(fn_call.arg))>>]
       IN  fn_ret' = <<[success_entity_ok |-> success_entity_ok(resp),
                        success_coords |-> success_coords(resp)]>>
    /\ UNCHANGED <<fn_call, actor_vars, store_env, gg_vars>>

\* Handler<ListStonesMessage> on the reply send_and_await returned
FnListStones ==
    /\ fn_call.fn = "list_stones"
    /\ fn_ret = <<>>
    /\ fn_ret' = <<ListStonesReturn(ListStonesMessage(fn_call.arg.color, 0),
                                    fn_call.arg.resp)>>
    /\ UNCHANGED <<fn_call, actor_vars, store_env, gg_vars>>

\* Handler<GenMoveMessage> on the reply send_and_await returned
FnGenMove ==
    /\ fn_call.fn = "genmove"
    /\ fn_ret = <<>>
    /\ fn_ret' = <<GenMoveReturn(fn_call.arg)>>
    /\ UNCHANGED <<fn_call, actor_vars, store_env, gg_vars>>

\* BoardTableActor::refresh_ui_rows on a store with the given stones and
\* highlight, and Handler<GetTuiWidthsMessage> on the same store
FnLayout ==
    /\ fn_call.fn = "layout"
    /\ fn_ret = <<>>
    /\ fn_ret' = <<[rows |-> refresh_ui_rows(fn_call.arg.size, fn_call.arg.white,
                                            fn_call.arg.black,
                                            fn_call.arg.highlight,
                                            make_star_points(fn_call.arg.size)),
                    widths |-> tui_widths(fn_call.arg.size)]>>
    /\ UNCHANGED <<fn_call, actor_vars, store_env, gg_vars>>

NextFn ==
    \/ FnGetColumnName
    \/ FnGetColumnNumber
    \/ FnKey
    \/ FnStarPoints
    \/ FnVertex
    \/ FnListStones
    \/ FnGenMove
    \/ FnLayout

SpecFn == InitFn /\ [][NextFn]_vars

(***************************************************************************)
(* Properties of EngineActor and of the actor coordinator, checked under   *)
(* Spec.                                                                   *)
(***************************************************************************)
\* the command lines whose handler has not returned yet
Outstanding == {i \in 1..Len(results) : results[i].st = "pending"}

\* the timeouts of the handlers that ran before line h was written
TimeoutsBefore(h) ==
    Cardinality({j \in 1..(h - 1) : results[j].st = "timeout"})

\* C1: EngineActor has at most one command outstanding at the subprocess:
\* every line written has its handler's record, at most one handler has not
\* returned, and it is the one EngineActor is running.
C1_OneCommandOutstanding ==
    /\ Len(results) = Len(wire)
    /\ Cardinality(Outstanding) <= 1
    /\ (Outstanding = {}) <=> (handling = <<>>)
    /\ Outstanding # {} => Outstanding = {Len(wire)} /\ handling[1].id = wire[Len(wire)].id

\* a command waits for its reply while other senders' messages are queued
C1_Witness == Outstanding # {} /\ Len(mailbox) >= 2

\* C4: the commands reach the subprocess in the order their messages were
\* issued (the i-th line written is the i-th message issued, the queued
\* messages follow in issue order), and when a line is written the handlers
\* of all earlier lines have returned.
C4_IssueOrder ==
    /\ \A i \in 1..Len(wire) :
          /\ wire[i].id = i
          /\ \A j \in 1..(i - 1) : results[j].st # "pending"
    /\ \A k \in 1..Len(mailbox) : mailbox[k].id = Len(wire) + k

\* three commands were written one after the other while a fourth message
\* was queued behind them
C4_Witness == Len(wire) >= 3 /\ mailbox # <<>> /\ results[2].st # "pending"

\* C5: nothing is drained after a timeout: a handler that reads a reply
\* reads the oldest one not read yet, so after earlier timeouts it reads the
\* late reply of an earlier command as its own.
C5_LateReplyIsNextReply ==
    \A h \in 1..Len(results) :
        results[h].st = "reply" => results[h].for = h - TimeoutsBefore(h)

\* the command before timed out and this one read that command's reply
C5_Witness ==
    \E h \in 2..Len(results) :
        /\ results[h - 1].st = "timeout"
        /\ results[h].st = "reply"
        /\ results[h].for = h - 1

\* C6: each engine operation writes its command exactly once, whatever its
\* outcome, and the subprocess launched by new() is never launched again.
C6_WrittenOnce ==
    /\ gtp_starts = 1
    /\ Len(wire) = issued - Len(mailbox)
    /\ \A i, j \in 1..Len(wire) : wire[i].id = wire[j].id => i = j

\* an operation timed out and later operations were served
C6_Witness ==
    \E i \in 1..Len(results) :
        /\ results[i].st = "timeout"
        /\ i < Len(wire)

\* C7: OnStonesChangeMessage goes to the listener exactly when a play or a
\* genmove handler returns Ok.
C7_NotifiedIffOk ==
    \A i \in 1..Len(results) :
        results[i].st # "pending" =>
            (results[i].notified <=>
                (wire[i].name \in {"play", "genmove"} /\ results[i].ok))

\* a play returned Ok and told the listener; a genmove read a success reply
\* it could not decode, returned Err and told nobody
C7_Witness ==
    \E i, j \in 1..Len(results) :
        /\ wire[i].name = "play" /\ results[i].ok /\ results[i].notified
        /\ wire[j].name = "genmove" /\ results[j].st = "reply"
        /\ results[j].marked_ok /\ ~results[j].ok /\ ~results[j].notified

\* line i is a play whose handler returned Ok
PlayOk(i) ==
    wire[i].name = "play" /\ results[i].st = "reply" /\ results[i].ok

\* C2: after a play succeeds, exactly two list_stones commands, one for Black
\* and one for White, are written before the next genmove.
C2_RefreshBeforeGenMove ==
    \A i, g \in 1..Len(wire) :
        (/\ i < g
         /\ PlayOk(i)
         /\ wire[g].name = "genmove"
         /\ \A k \in (i + 1)..(g - 1) : wire[k].name # "genmove")
        => LET lists == {k \in (i + 1)..(g - 1) : wire[k].name = "list_stones"}
           IN  /\ Cardinality(lists) = 2
               /\ {wire[k].color : k \in lists} = {Black, White}

\* C8: a failed engine call, the board-size query of the startup included,
\* comes back as an error value and never ends the program: no handler
\* result that is an Err is followed by the panic of main.
C8_FailureIsErrorValue ==
    (\E i \in 1..Len(results) : results[i].st # "pending" /\ ~results[i].ok)
        => crash # "board_size_query"

\* C9: an Enter whose highlight is incomplete sends no command and leaves
\* the coordinator able to handle later events: the coordinator is never
\* ended by the coordinate conversion of the Enter closure.
C9_IncompleteEnterIsHarmless == crash # "invalid_coordinate"

(***************************************************************************)
(* Properties of GoGame, checked under SpecGoGame.                         *)
(***************************************************************************)
\* the stones GoGame's board holds
BoardStones ==
    IF board = <<>> THEN [black |-> <<>>, white |-> <<>>]
    ELSE [black |-> board[1].black_stones, white |-> board[1].white_stones]

\* C3: a failed or timed-out call of the play chain or of the genmove chain
\* ends in gtp_status Error with the message in gtp_error (once update has
\* taken the GtpError message), and in Error the board holds the stones of
\* the last refresh that succeeded in full.
C3_FailureEndsInError ==
    /\ gg_failed # <<>> =>
          \/ \E k \in 1..Len(gg_msgs) : gg_msgs[k] = GtpError(gg_failed[1])
          \/ gtp_status = "Error" /\ gtp_error = gg_failed
    /\ gtp_status = "Error" =>
          /\ gg_failed # <<>>
          /\ gtp_error = gg_failed
          /\ BoardStones = gg_fetched

\* the play and its refresh succeeded, genmove failed: Error, and the board
\* keeps the stones fetched after the play
C3_Witness ==
    /\ gtp_status = "Error"
    /\ gtp_error = <<"genmove">>
    /\ BoardStones.black # <<>>
    /\ BoardStones = gg_fetched

\* the play commands GoGame's tasks have written, and the play_move tasks
\* that have not called play yet
PlaysWritten == SelectSeq(wire, LAMBDA c : c.name = "play")
PlaysPending == {t \in gg_tasks : t.name = "play_move" /\ t.pc = 1}

\* every accepted Enter has one play, of player_color at its coordinates,
\* written or about to be
PlaysMatchAccepted ==
    /\ Len(PlaysWritten) + Cardinality(PlaysPending) = Len(gg_accepted)
    /\ \A k \in 1..Len(PlaysWritten) :
          /\ PlaysWritten[k].color = Black
          /\ PlaysWritten[k].vtx = vertex(gg_accepted[k])

\* what one Enter does
EnterStep ==
    IF /\ gtp_status = "Idle"
       /\ board # <<>>
       /\ board[1].highlight_coords.row # None
       /\ board[1].highlight_coords.col # None
    THEN /\ gtp_status' = "Loading"
         /\ gg_input' = <<>>
         /\ board'[1].highlight_coords = OptCoords(None, None)
         /\ gg_tasks' \ gg_tasks =
              {Task("play_move", 1, Black,
                    Coords(board[1].highlight_coords.row,
                           board[1].highlight_coords.col), <<>>)}
         /\ gg_tasks \subseteq gg_tasks'
    ELSE UNCHANGED <<board, gg_input, gtp_status, gtp_error, gg_tasks,
                     gg_msgs, wire>>

\* C10: Enter in Idle with a row and a column highlighted sets Loading,
\* empties the input, resets the highlight to (None, None) and issues
\* exactly one play(player_color, coords); any other Enter changes nothing.
C10_EnterIssuesOnePlay ==
    [](PlaysMatchAccepted) /\ [][GGEnter => EnterStep]_vars

\* an Enter was just accepted: Loading, the input empty, the highlight
\* reset, its play not written yet
C10_Witness ==
    /\ gtp_status = "Loading"
    /\ gg_input = <<>>
    /\ board # <<>> /\ board[1].highlight_coords = OptCoords(None, None)
    /\ PlaysPending # {}
    /\ Len(gg_accepted) = 2

\* a letter, a digit, Backspace or Enter is delivered to update (every key
\* event of the model but Ctrl-C)
InputKeyStep == keys' = keys + 1 /\ should_exit' = should_exit

\* the play-then-genmove chains under way: a task of a move, or the
\* AfterStonePlayed that update will turn into gen_next_move
MoveChains ==
    Cardinality({t \in gg_tasks : t.name \in {"play_move", "gen_next_move"}})
    + Len(SelectSeq(gg_msgs, LAMBDA m : m.kind = "AfterStonePlayed"))

\* C11: while gtp_status is Loading a letter, digit, Backspace or Enter
\* leaves the pending input, the highlight and the stones as they are and
\* starts no engine call; at most one play-then-genmove chain is under way,
\* and only in Loading.
C11_LoadingSuppressesInput ==
    /\ [](MoveChains <= 1 /\ (MoveChains = 1 => gtp_status = "Loading"))
    /\ [][gtp_status = "Loading" /\ InputKeyStep =>
            UNCHANGED <<gg_input, board, gtp_status, gg_tasks, gg_msgs, wire>>]_vars

\* an input key arrived in Loading, and the chain of the one accepted move
\* is still under way
C11_Witness ==
    /\ gtp_status = "Loading"
    /\ "Loading" \in gg_ignored
    /\ MoveChains = 1
    /\ Len(gg_accepted) = 1

\* the commands of one move, in order, and the colour each one names
MoveCommands ==
    <<"play", "list_stones", "list_stones", "genmove", "list_stones",
      "list_stones">>
MoveColors == <<Black, Black, White, White, Black, White>>

\* the place of line i of wire within its move (line 1 is query_boardsize)
MoveStep(i) == ((i - 2) % 6) + 1

\* C12: the commands of an accepted move are written in the order play
\* (player colour, the accepted coords), list_stones Black, list_stones
\* White, genmove (opposite colour), list_stones Black, list_stones White;
\* the board holds the first pair of lists before genmove is written, and
\* gtp_status is Idle again only when all six commands were written and the
\* board holds the second pair.
C12_MoveCommandOrder ==
    /\ \A i \in 2..Len(wire) :
          /\ wire[i].name = MoveCommands[MoveStep(i)]
          /\ wire[i].color = MoveColors[MoveStep(i)]
          /\ (i - 2) \div 6 < Len(gg_accepted)
          /\ MoveStep(i) = 1 =>
                wire[i].vtx = vertex(gg_accepted[((i - 2) \div 6) + 1])
    /\ (Len(wire) >= 2 /\ MoveStep(Len(wire)) \in {4, 5}) =>
          BoardStones = gg_fetched
    /\ gtp_status = "Idle" =>
          /\ Len(wire) \in {0, 1 + 6 * Len(gg_accepted)}
          /\ BoardStones = gg_fetched

\* a move ran to its end: six commands after query_boardsize, Idle again,
\* and the board shows the stone the engine generated
C12_Witness ==
    /\ gtp_status = "Idle"
    /\ Len(wire) = 7
    /\ BoardStones.white # <<>>
    /\ BoardStones.black # <<>>

\* C14: Error is absorbing: from Error no step leaves Error, writes a
\* command or changes gtp_error, and gtp_error holds a message exactly when
\* gtp_status is Error.
C14_ErrorIsAbsorbing ==
    /\ []((gtp_error # <<>>) <=> (gtp_status = "Error"))
    /\ [][gtp_status = "Error" =>
            /\ gtp_status' = "Error"
            /\ wire' = wire
            /\ gg_tasks' = gg_tasks
            /\ gtp_error' = gtp_error]_vars

\* input keys arrived after gtp_status became Error
C14_Witness ==
    /\ gtp_status = "Error"
    /\ "Error" \in gg_ignored
    /\ gtp_error # <<>>

(***************************************************************************)
(* Further properties of the actor coordinator, checked under Spec.        *)
(***************************************************************************)
\* C13: a genmove is written only for a round whose play succeeded: the
\* last play written before any genmove line has returned Ok.
C13_GenMoveOnlyAfterPlayOk ==
    \A g \in 1..Len(wire) :
        wire[g].name = "genmove" =>
            \E i \in 1..(g - 1) :
                /\ PlayOk(i)
                /\ \A k \in (i + 1)..(g - 1) : wire[k].name # "play"

\* the stone writes queued for BoardTableActor
StoneWrites(q) ==
    SelectSeq(q, LAMBDA m : m.kind \in {"SetWhiteStonesMessage",
                                          "SetBlackStonesMessage"})

\* the closure of refresh future f runs in this step
RefreshEnds(f) ==
    /\ f \in ctl_futs
    /\ f.kind = "refresh"
    /\ ~\E g \in ctl_futs' : g.kind = "refresh" /\ g.wid = f.wid

\* C15: a refresh is a join: its closure runs only when both list_stones
\* replies are there; with both Ok it queues the white and the black write
\* and returns Ok, otherwise it queues no write and returns Err; and stone
\* writes are queued by nothing else.
C15_RefreshIsJoin ==
    [][/\ \A f \in ctl_futs :
            RefreshEnds(f) =>
                /\ f.wres # <<>>
                /\ f.bres # <<>>
                /\ IF f.wres[1].ok /\ f.bres[1].ok
                   THEN /\ tbl_mailbox' = tbl_mailbox \o
                             <<SetWhiteStonesMessage(f.wres[1].stones),
                               SetBlackStonesMessage(f.bres[1].stones)>>
                        /\ last_refresh' = "Ok"
                   ELSE /\ tbl_mailbox' = tbl_mailbox
                        /\ last_refresh' = "Err"
       /\ Len(StoneWrites(tbl_mailbox')) > Len(StoneWrites(tbl_mailbox)) =>
            \E f \in ctl_futs : RefreshEnds(f)]_vars

\* a refresh whose white list succeeded and whose black list failed ended
\* with Err, and the store holds no stones
C15_Witness ==
    /\ last_refresh = "Err"
    /\ white_stones = <<>> /\ black_stones = <<>>
    /\ StoneWrites(tbl_mailbox) = <<>>
    /\ \E i \in 1..(Len(results) - 1) :
          /\ wire[i].name = "list_stones" /\ wire[i].color = White
          /\ results[i].ok
          /\ wire[i + 1].name = "list_stones" /\ wire[i + 1].color = Black
          /\ results[i + 1].st # "pending" /\ ~results[i + 1].ok

\* nothing is left to do: every mailbox is empty, no handler and no future
\* is running, and the renderer waits for a key
Quiescent ==
    /\ crash = "none"
    /\ main_pc = "running"
    /\ mailbox = <<>> /\ handling = <<>>
    /\ ctl_mailbox = <<>> /\ ctl_notify = <<>> /\ ctl_futs = {}
    /\ tbl_mailbox = <<>>
    /\ rdr_pc = "ready"

\* an Enter whose play and whose genmove both returned Ok
EnterSucceeded ==
    \E i \in 1..(Len(results) - 1) :
        /\ PlayOk(i)
        /\ wire[i + 1].name = "genmove"
        /\ results[i + 1].ok

\* what list_stones of a colour yields in the engine's present position
EngineStones(color) ==
    LET vs == SortedVertices(IF color = Black THEN pos.b ELSE pos.w)
    IN  [i \in 1..Len(vs) |-> parser_stone_with_color(color, Vtx(vs[i]))]

\* C16: after an Enter whose play and genmove both succeeded, once all
\* pending messages are processed, the store's stone lists are the engine's
\* lists for the position after the generated move.
C16_StoreMatchesEngine ==
    (Quiescent /\ EnterSucceeded) =>
        /\ white_stones = EngineStones(White)
        /\ black_stones = EngineStones(Black)

\* C21: the white list the store holds is the empty list it was created
\* with or a list that a Handler<ListStonesMessage> for White returned Ok,
\* whole and in its order, and every stone of it is tagged White; the same
\* for Black; a list of the store changes only when the store handles the
\* Set message of its colour, to the list that message carries.
C21_StonesAreListed ==
    /\ [](/\ (white_stones = <<>> \/ white_stones \in listed[White])
          /\ (black_stones = <<>> \/ black_stones \in listed[Black])
          /\ \A i \in 1..Len(white_stones) : white_stones[i].color = White
          /\ \A i \in 1..Len(black_stones) : black_stones[i].color = Black)
    /\ [][/\ (white_stones' # white_stones =>
                 /\ tbl_mailbox # <<>>
                 /\ Head(tbl_mailbox).kind = "SetWhiteStonesMessage"
                 /\ white_stones' = Head(tbl_mailbox).stones)
           /\ (black_stones' # black_stones =>
                 /\ tbl_mailbox # <<>>
                 /\ Head(tbl_mailbox).kind = "SetBlackStonesMessage"
                 /\ black_stones' = Head(tbl_mailbox).stones)]_vars

\* the store holds a stone of each colour, on different vertices, and the
\* engine answered list_stones for each colour with more than one list
C21_Witness ==
    /\ white_stones # <<>>
    /\ black_stones # <<>>
    /\ Cardinality(listed[White]) > 1
    /\ Cardinality(listed[Black]) > 1

\* the QueryBoardSizeMessage still in EngineActor's mailbox, and the
\* query_boardsize lines written
QueriesQueued ==
    Cardinality({i \in 1..Len(mailbox) : mailbox[i].kind = "QueryBoardSizeMessage"})
QueriesWritten ==
    Cardinality({i \in 1..Len(wire) : wire[i].name = "query_boardsize"})

\* C22: main sends QueryBoardSizeMessage once, before anything else: from
\* then on exactly one query_boardsize is queued or written, and if written
\* it is the first line of the wire; once BoardTableActor is created its
\* board_size is the size that query returned and no step changes it.
C22_BoardSizeFixed ==
    /\ [](/\ QueriesQueued + QueriesWritten = (IF main_pc = "start" THEN 0 ELSE 1)
          /\ \A i \in 2..Len(wire) : wire[i].name # "query_boardsize"
          /\ (main_pc = "running" =>
                main_resp # <<>> /\ main_resp[1].ok /\ board_size = main_resp[1].size))
    /\ [][main_pc = "running" => board_size' = board_size]_vars

\* the store was created with the engine's size, and a move, its answer and
\* a refresh went over the wire after the query
C22_Witness ==
    /\ main_pc = "running"
    /\ board_size = EngineBoardSize
    /\ Len(wire) >= 5
    /\ QueriesWritten = 1
    /\ white_stones # <<>>
    /\ highlight_coords # OptCoordsDefault

\* a handler returns Err: its send_and_await timed out, or the reply was
\* marked as failure or could not be decoded
FailureStep ==
    /\ Len(results') = Len(results)
    /\ results' # results
    /\ ~results'[Len(results')].ok

\* the lines of wire whose handler returned Err
Failed == {i \in 1..Len(results) : results[i].st # "pending" /\ ~results[i].ok}

\* C23: a step in which a handler returns Err leaves EngineActor as it was
\* before the command: the subprocess is not started again, the actor is
\* not stopped, the mailbox keeps its messages and nothing more is written;
\* whenever the actor is idle with a message waiting it can take it, and
\* taking it writes the command of that message and waits for its reply,
\* also after a failure.
C23_FailureKeepsSession ==
    /\ [][FailureStep =>
            /\ gtp_starts' = gtp_starts
            /\ crash' = crash
            /\ handling' = <<>>
            /\ mailbox' = mailbox
            /\ wire' = wire]_vars
    /\ [][mailbox # <<>> /\ mailbox' = Tail(mailbox) =>
            /\ wire' = Append(wire, CommandOf(Head(mailbox)))
            /\ handling' = <<Head(mailbox)>>
            /\ results' = Append(results, Pending)]_vars
    /\ [](crash = "none" /\ handling = <<>> /\ mailbox # <<>> => ENABLED EngineSend)

\* a command timed out, another got a failure reply or one that could not
\* be decoded; a command sent after both was written, answered and returned
\* Ok
C23_Witness ==
    \E i, j, k \in 1..Len(results) :
        /\ i < k /\ j < k
        /\ results[i].st = "timeout"
        /\ results[j].st = "reply" /\ ~results[j].ok
        /\ results[k].st = "reply" /\ results[k].ok /\ results[k].for = k - 1

\* the step in which the closure of an Enter event sends PlayMessage
PlaySent ==
    /\ Len(mailbox') = Len(mailbox) + 2
    /\ mailbox'[Len(mailbox) + 1].kind = "PlayMessage"

\* C31: whenever the closure of an Enter event sends PlayMessage, the row and
\* the column it sends are those parse_input_coords gives for the pending
\* input the store holds at that moment.  Checked under SpecTyped.
C31_EnterPlaysInput ==
    [][PlaySent =>
          LET position == mailbox'[Len(mailbox) + 1].position
          IN  parse_input_coords(next_move_input)
                  = OptCoords(position.row, position.col)]_vars

\* empty, or one letter of A-T without I and then at most two digits
WellFormedInput(input) ==
    \/ input = <<>>
    \/ /\ Len(input) <= 3
       /\ input[1] \in char_range
       /\ \A i \in 2..Len(input) : input[i] \in number_range

C33_HighlightFollowsInput ==
    Quiescent /\ keys > 0
        => highlight_coords = parse_input_coords(next_move_input)

\* C34: every position an accepted Enter hands to play_move lies on the
\* board: row and col are both in 1..board_size.  Checked under SpecGoGame.
C34_PlayOnBoard ==
    \A i \in 1..Len(gg_accepted) :
        /\ board # <<>>
        /\ gg_accepted[i].row \in 1..board[1].board_size
        /\ gg_accepted[i].col \in 1..board[1].board_size

\* C35: in GoGame every Loading state is eventually left: while the
\* application runs (no Ctrl-C exit), Loading leads to Idle or to Error.
\* Checked under SpecGoGameFair.
C35_LoadingIsLeft ==
    (gtp_status = "Loading")
        ~> (gtp_status \in {"Idle", "Error"} \/ should_exit # None)

\* both rounds of an accepted Enter succeeded and GoGame is Idle again
C35_Witness ==
    /\ gg_accepted # <<>>
    /\ gtp_status = "Idle"
    /\ gg_tasks = {} /\ gg_msgs = <<>>
    /\ should_exit = None

(***************************************************************************)
(* Properties of the store, checked under SpecStore.                       *)
(***************************************************************************)
\* the store handles the message at the head of its mailbox, one of `kinds`
Handles(kinds) ==
    /\ tbl_mailbox # <<>>
    /\ Head(tbl_mailbox).kind \in kinds
    /\ tbl_mailbox' = Tail(tbl_mailbox)

StoneKinds == {"SetWhiteStonesMessage", "SetBlackStonesMessage"}

\* what refresh_ui_rows makes of the store as it is
Layout ==
    refresh_ui_rows(board_size, white_stones, black_stones, highlight_coords,
                    make_star_points(board_size))

\* C17: once a SetWhiteStonesMessage or SetBlackStonesMessage was handled
\* refresh_ui_request is set; the GetTuiRowsMessage that follows runs
\* refresh_ui_rows once, on the stones as they are now, answers with the
\* new rows and clears the flag; a GetTuiRowsMessage that follows another
\* one with no Set message in between runs nothing and answers with the
\* same rows as the one before.
C17_DirtyThenCached ==
    /\ [](unrendered \cap StoneKinds # {} => refresh_ui_request)
    /\ [][Handles({"GetTuiRowsMessage"}) /\ unrendered \cap StoneKinds # {} =>
            /\ recomputes' = recomputes + 1
            /\ rows' = Layout
            /\ drawn'[Len(drawn')].rows = TuiRows(Layout)
            /\ ~refresh_ui_request']_vars
    /\ [][Handles({"GetTuiRowsMessage"}) /\ unrendered = {} /\ drawn # <<>> =>
            /\ recomputes' = recomputes
            /\ rows' = rows
            /\ drawn'[Len(drawn')].rows = drawn[Len(drawn)].rows]_vars

\* both lists of a refresh were stored, the rows were asked for twice; the
\* first request recomputed them, the second did not
C17_Witness ==
    /\ sets = 0
    /\ Len(drawn) = 2
    /\ drawn[1].white # <<>>
    /\ drawn[1].black # <<>>
    /\ drawn[1].rows = drawn[2].rows
    /\ drawn[1].rows # TuiRows(refresh_ui_rows(board_size, <<>>, <<>>,
                                               OptCoordsDefault,
                                               make_star_points(board_size)))
    /\ recomputes = 2

MutatingKinds ==
    {"SetNextMoveInput", "SetHightlightCoordsMessage",
     "SetWhiteStonesMessage", "SetBlackStonesMessage"}

\* the messages that change what refresh_ui_rows reads
LayoutKinds == MutatingKinds \ {"SetNextMoveInput"}

\* refresh_ui_request goes from set to clear only in the handler of
\* GetTuiRowsMessage, in the step that ran refresh_ui_rows
ClearedByRecompute ==
    [][refresh_ui_request /\ ~refresh_ui_request' =>
          Handles({"GetTuiRowsMessage"}) /\ recomputes' = recomputes + 1]_vars

\* C18, as stated: once any of SetWhiteStonesMessage, SetBlackStonesMessage,
\* SetHightlightCoordsMessage or SetNextMoveInput was handled
\* refresh_ui_request is set, until a GetTuiRowsMessage is handled; the flag
\* is cleared only by the handler of GetTuiRowsMessage, as it recomputes.
C18_EveryMutationSetsDirty ==
    /\ [](unrendered # {} => refresh_ui_request)
    /\ ClearedByRecompute

\* C18, amended: refresh_ui_request is set exactly when a message that
\* changes the stones or the highlight was handled since the last
\* GetTuiRowsMessage; SetNextMoveInput leaves the flag as it is; the flag is
\* cleared only by the handler of GetTuiRowsMessage, as it recomputes.
C18_LayoutMutationSetsDirty ==
    /\ [](unrendered \cap LayoutKinds # {} <=> refresh_ui_request)
    /\ [][Handles({"SetNextMoveInput"}) =>
            refresh_ui_request' = refresh_ui_request]_vars
    /\ ClearedByRecompute

\* an input was stored and the flag is clear; the rows are those of the
\* store all the same
C18_Witness ==
    /\ unrendered = {"SetNextMoveInput"}
    /\ next_move_input # <<>>
    /\ ~refresh_ui_request
    /\ drawn # <<>>
    /\ rows = Layout

\* C19: the rows every GetTuiRowsMessage was answered with are the layout of
\* the white stones, the black stones and the highlight the store held when
\* it handled the request, whether it recomputed them or not; and whenever
\* refresh_ui_request is clear the rows the store keeps are the layout of
\* what it holds.
C19_RowsAreCurrent ==
    /\ \A i \in 1..Len(drawn) :
          drawn[i].rows =
              TuiRows(refresh_ui_rows(board_size, drawn[i].white, drawn[i].black,
                                      drawn[i].highlight,
                                      make_star_points(board_size)))
    /\ (~refresh_ui_request => rows = Layout)

\* three reads with a change of the layout between them, the last with
\* stones and a highlighted column, and another read after it that found
\* the flag clear
C19_Witness ==
    /\ Len(drawn) = 3
    /\ drawn[1].rows # drawn[2].rows
    /\ drawn[2].white # <<>>
    /\ drawn[2].highlight.col # None
    /\ drawn[3].rows = drawn[2].rows
    /\ recomputes = 3

\* C20: no GetTuiRowsMessage is answered from a store that holds the white
\* list of one refresh and the black list of an earlier refresh.
C20_NoTornRead ==
    \A i \in 1..Len(drawn) :
        ~ \E n \in 1..refreshes : \E m \in 1..(n - 1) :
              /\ drawn[i].white = RefreshStones(n, White)
              /\ drawn[i].black = RefreshStones(m, Black)

(***************************************************************************)
(* Properties of the pure functions, checked under SpecFn.                 *)
(***************************************************************************)
\* the call of fn has returned
Returned(fn) == fn_call.fn = fn /\ fn_ret # <<>>

\* some token of the reply's text is no vertex
HasNonVertex(resp) == \E i \in 1..Len(resp.text) : ~IsVertexTok(resp.text[i])

\* C24: when the reply to list_stones is success-marked and a token of its
\* text is no vertex, the handler returns an error, and no failure-marked
\* reply to list_stones makes it return an equal error.
C24_DecodeErrorIsDistinct ==
    Returned("list_stones") /\ fn_call.arg.resp.ok /\ HasNonVertex(fn_call.arg.resp)
    => /\ ~fn_ret[1].ok
       /\ \A failure \in Replies :
            ~failure.ok =>
                ListStonesReturn(ListStonesMessage(fn_call.arg.color, 0),
                                 failure).error # fn_ret[1].error

PassTexts == {<<Word(w)>> : w \in {"pass", "PASS", "Pass"}}
ResignTexts == {<<Word(w)>> : w \in {"resign", "RESIGN", "Resign"}}
IsOneVertex(text) == Len(text) = 1 /\ IsVertexTok(text[1])

\* C25: gen_move returns Pass for the text "pass" and Resign for the text
\* "resign", in any letter case; Position with the vertex's column and row
\* for a text that is one vertex; and an error for a failure-marked reply
\* and for every other text.
C25_GenMoveClassifies ==
    Returned("genmove") =>
        LET resp == fn_call.arg
            ret  == fn_ret[1]
        IN  IF ~resp.ok THEN ~ret.ok
            ELSE IF resp.text \in PassTexts THEN ret.ok /\ ret.value = <<"Pass">>
            ELSE IF resp.text \in ResignTexts THEN ret.ok /\ ret.value = <<"Resign">>
            ELSE IF IsOneVertex(resp.text)
                 THEN /\ ret.ok
                      /\ ret.value = <<"Position", Coords(resp.text[1][3], resp.text[1][2])>>
            ELSE ~ret.ok

\* C26: list_stones returns, for a success-marked reply whose tokens are all
\* vertices, one Stone per vertex, in the order of the reply, of the colour
\* asked for and with the vertex's column and row; for any other reply it
\* returns an error and no stones.
C26_ListStonesDecodes ==
    Returned("list_stones") =>
        LET color == fn_call.arg.color
            resp  == fn_call.arg.resp
            ret   == fn_ret[1]
        IN  IF resp.ok /\ ~HasNonVertex(resp)
            THEN /\ ret.ok
                 /\ Len(ret.value) = Len(resp.text)
                 /\ \A i \in 1..Len(resp.text) :
                      ret.value[i] = Stone(color, resp.text[i][3], resp.text[i][2])
            ELSE ~ret.ok /\ ret.value = <<>>

C26_Witness ==
    /\ Returned("list_stones")
    /\ fn_call.arg.color = White
    /\ fn_call.arg.resp = [ok |-> TRUE, text |-> <<Vtx(<<3, 1>>), Vtx(<<1, 2>>)>>]
    /\ fn_ret[1].ok
    /\ Len(fn_ret[1].value) = 2

\* C27 as stated: the letter Q on an empty input gives the input "Q", the
\* digit 4 on the input "Q" gives "Q4", and the highlight of "Q4", which is
\* the position an Enter submits, is row 4, column 17.
C27_Q4IsColumn17 ==
    /\ Returned("key") /\ fn_call.arg.input = <<>> /\ fn_call.arg.key = "Q"
       => fn_ret[1].input = <<"Q">>
    /\ Returned("key") /\ fn_call.arg.input = <<"Q">> /\ fn_call.arg.key = "4"
       => /\ fn_ret[1].input = <<"Q", "4">>
          /\ fn_ret[1].highlight = OptCoords(4, 17)
          /\ fn_ret[1].position = <<Coords(4, 17)>>

\* C27, amended: the letter Q on an empty input gives the input "Q", the
\* digit 4 on the input "Q" gives "Q4", and the highlight of "Q4", which is
\* the position an Enter submits, is row 4, column 16: Q is the sixteenth
\* letter of A-T without I.
C27_Q4IsColumn16 ==
    /\ Returned("key") /\ fn_call.arg.input = <<>> /\ fn_call.arg.key = "Q"
       => fn_ret[1].input = <<"Q">>
    /\ Returned("key") /\ fn_call.arg.input = <<"Q">> /\ fn_call.arg.key = "4"
       => /\ fn_ret[1].input = <<"Q", "4">>
          /\ fn_ret[1].highlight = OptCoords(4, 16)
          /\ fn_ret[1].position = <<Coords(4, 16)>>

C27_Witness ==
    /\ Returned("key")
    /\ fn_call.arg.input = <<"Q">>
    /\ fn_call.arg.key = "4"
    /\ fn_ret[1].input = <<"Q", "4">>
    /\ fn_ret[1].position # <<>>

\* C28: for every n in 1..19 get_column_name(n) is a letter of A-T other
\* than I and get_column_number of it is n; for every such letter c
\* get_column_number(c) is in 1..19 and get_column_name of it is c; A is 1,
\* H is 8, J is 9 and T is 19.
C28_ColumnsAreInverse ==
    /\ Returned("get_column_name") =>
          /\ fn_ret[1].name \in char_range
          /\ fn_ret[1].name # "I"
          /\ fn_ret[1].number = fn_call.arg
    /\ Returned("get_column_number") =>
          /\ fn_ret[1].number \in 1..19
          /\ fn_ret[1].name = fn_call.arg
          /\ (fn_call.arg = "A" => fn_ret[1].number = 1)
          /\ (fn_call.arg = "H" => fn_ret[1].number = 8)
          /\ (fn_call.arg = "J" => fn_ret[1].number = 9)
          /\ (fn_call.arg = "T" => fn_ret[1].number = 19)

C28_Witness ==
    /\ Returned("get_column_name")
    /\ fn_call.arg = 9
    /\ fn_ret[1].name = "J"
    /\ fn_ret[1].number = 9

\* C29: for every board size N from 5 to 25, make_star_points(N) and
\* gen_star_points(N) return 5 points when N < 19 and 9 points when N >= 19,
\* each with its row and its column in 1..N.
C29_StarPointsOnBoard ==
    Returned("make_star_points") =>
        \A points \in {fn_ret[1].table, fn_ret[1].board} :
            /\ Len(points) = (IF fn_call.arg < 19 THEN 5 ELSE 9)
            /\ \A i \in 1..Len(points) :
                 /\ points[i].row \in 1..fn_call.arg
                 /\ points[i].col \in 1..fn_call.arg

C29_Witness ==
    /\ Returned("make_star_points")
    /\ fn_call.arg = 18
    /\ Len(fn_ret[1].table) = 5
    /\ fn_ret[1].table[2] = Coords(4, 15)

LayoutCell(layout, size, row, col) == layout[size - row + 2][2 * col + 1]
StoneChar(color) == IF color = White THEN "white_stone_char" ELSE "black_stone_char"
StonesAt(stones, row, col) ==
    {i \in 1..Len(stones) : stones[i].row = row /\ stones[i].col = col}

\* C36: for any white and black stone lists, every stone with its row and
\* its col in 1..N is shown in the cell of its row and column with the
\* stone character of its colour, and every intersection without a stone
\* shows an intersection character.  Checked under SpecFn.
C36_LayoutShowsStones ==
    Returned("layout") =>
        LET size   == fn_call.arg.size
            stones == fn_call.arg.white \o fn_call.arg.black
            layout   == fn_ret[1].rows
        IN  \A row, col \in 1..size :
              /\ \A i \in StonesAt(stones, row, col) :
                   LayoutCell(layout, size, row, col).cell_text
                       = <<StoneChar(stones[i].color)>>
              /\ (StonesAt(stones, row, col) = {}) =>
                   LayoutCell(layout, size, row, col).cell_text
                       \in {<<"intersection_char">>, <<"intersection_star_char">>}

\* C37: for every odd board size N, make_star_points(N) and
\* gen_star_points(N) contain the centre ((N+1)/2, (N+1)/2), and for
\* N >= 19 the four side points lie on the centre row or the centre column.
\* Checked under SpecFn.
C37_CentreStarPoint ==
    (Returned("make_star_points") /\ fn_call.arg % 2 = 1) =>
        LET centre == (fn_call.arg + 1) \div 2
        IN  \A points \in {fn_ret[1].table, fn_ret[1].board} :
              /\ \E i \in 1..Len(points) : points[i] = Coords(centre, centre)
              /\ \A i \in 6..Len(points) :
                   points[i].row = centre \/ points[i].col = centre

\* C38: for every board size N and every stones and highlight, the layout
\* has N + 2 rows, line N first and line 1 last between the two header
\* rows, and every row has 2N + 3 cells, as many as the widths of
\* GetTuiWidthsMessage.  Checked under SpecFn.
C38_LayoutShape ==
    Returned("layout") =>
        LET size == fn_call.arg.size
            layout == fn_ret[1].rows
        IN  /\ Len(layout) = size + 2
            /\ Len(fn_ret[1].widths) = 2 * size + 3
            /\ \A r \in 1..Len(layout) : Len(layout[r]) = Len(fn_ret[1].widths)
            /\ layout[1] = layout[size + 2]
            /\ layout[1][1] = spacing
            /\ \A line \in 1..size :
                 layout[size - line + 2][1].cell_text
                     = PadLeft(DecimalString(line), 3)

C38_Witness ==
    /\ Returned("layout")
    /\ fn_call.arg.size = MinStarSize
    /\ Len(fn_call.arg.white) = 2 /\ Len(fn_call.arg.black) = 2
    /\ Len(fn_ret[1].rows) = MinStarSize + 2
    /\ Len(fn_ret[1].rows[2]) = 2 * MinStarSize + 3

====
